---------------------------- MODULE Spec2Model ----------------------------
(***************************************************************************)
(* Chess2Pgn: the OCR-to-legal-move reconciliation engine of the S3        *)
(* trigger Lambda (chess-validator.js).  Strings are modelled as sequences *)
(* of one-character strings so that the character-level operations of the *)
(* code (regex stripping, substitutions, edit distance) are computed, not  *)
(* assumed.                                                                *)
(***************************************************************************)
EXTENDS Integers, Sequences, FiniteSets, TLC

(***************************************************************************)
(* Bounds of the model.                                                    *)
(***************************************************************************)
\* longest run of free tokens appended to a prefix of a recorded game
MaxTail == 2

(***************************************************************************)
(* Program constants.                                                      *)
(***************************************************************************)
MAX_DISTANCE_THRESHOLD == 2
LowestDistanceInit == 99

\* a text field (method, error) a JavaScript object does not carry
Undefined == "undefined"
\* an optional value that is absent; one that is present is <<value>>
Absent == << >>
\* JavaScript null where a move text is expected: no move text equals it,
\* a text being a sequence of single characters
Null == <<"null">>

(***************************************************************************)
(* Generic helpers on character sequences.                                 *)
(***************************************************************************)
Range(s) == {s[i] : i \in 1..Len(s)}

Min2(a, b) == IF a <= b THEN a ELSE b

IsDigit(c) == c \in {"0", "1", "2", "3", "4", "5", "6", "7", "8", "9"}

IsSpace(c) == c \in {" ", "\t", "\n"}

Drop(s, n) == SubSeq(s, n + 1, Len(s))

Take(s, n) == SubSeq(s, 1, n)

RECURSIVE DropDigits(_)
DropDigits(s) == IF s # <<>> /\ IsDigit(Head(s)) THEN DropDigits(Tail(s)) ELSE s

RECURSIVE DropSpaces(_)
DropSpaces(s) == IF s # <<>> /\ IsSpace(Head(s)) THEN DropSpaces(Tail(s)) ELSE s

RECURSIVE DropSpacesRight(_)
DropSpacesRight(s) ==
  IF s # <<>> /\ IsSpace(s[Len(s)]) THEN DropSpacesRight(Take(s, Len(s) - 1)) ELSE s

\* String.prototype.trim
Trim(s) == DropSpacesRight(DropSpaces(s))

\* text.replace(/^\d+\.?\s*/, ''): one or more leading digits, an optional
\* dot, any whitespace; a text that does not start with a digit is unchanged
StripMoveNumber(text) ==
  IF text # <<>> /\ IsDigit(Head(text))
  THEN LET afterDigits == DropDigits(text)
           afterDot == IF afterDigits # <<>> /\ Head(afterDigits) = "."
                       THEN Tail(afterDigits) ELSE afterDigits
       IN DropSpaces(afterDot)
  ELSE text

\* cleaned.split(/\s+/)[0]: the characters before the first whitespace
RECURSIVE FirstPart(_)
FirstPart(s) ==
  IF s = <<>> \/ IsSpace(Head(s)) THEN <<>> ELSE <<Head(s)>> \o FirstPart(Tail(s))

(***************************************************************************)
(* fast-levenshtein: levenshtein.get(a, b), computed row by row.           *)
(***************************************************************************)
RECURSIVE LevRow(_, _, _, _)
\* row: the cells of the current row filled so far (row[1] is column 0)
LevRow(row, prev, ca, b) ==
  IF Len(row) = Len(b) + 1 THEN row
  ELSE LET j == Len(row)
           cost == IF ca = b[j] THEN 0 ELSE 1
           cell == Min2(Min2(prev[j + 1] + 1, row[j] + 1), prev[j] + cost)
       IN LevRow(Append(row, cell), prev, ca, b)

RECURSIVE LevRows(_, _, _, _)
LevRows(prev, a, i, b) ==
  IF i > Len(a) THEN prev
  ELSE LevRows(LevRow(<<i>>, prev, a[i], b), a, i + 1, b)

Levenshtein(a, b) ==
  LET row0 == [j \in 1..(Len(b) + 1) |-> j - 1]
  IN LevRows(row0, a, 1, b)[Len(b) + 1]

(***************************************************************************)
(* Regular-expression helpers for the literal patterns of the code.        *)
(***************************************************************************)
UpperCase == <<"A", "B", "C", "D", "E", "F", "G", "H", "I", "J", "K", "L", "M",
               "N", "O", "P", "Q", "R", "S", "T", "U", "V", "W", "X", "Y", "Z">>

LowerCase == <<"a", "b", "c", "d", "e", "f", "g", "h", "i", "j", "k", "l", "m",
               "n", "o", "p", "q", "r", "s", "t", "u", "v", "w", "x", "y", "z">>

ToLower(c) ==
  IF c \in Range(UpperCase)
  THEN LowerCase[CHOOSE i \in 1..Len(UpperCase) : UpperCase[i] = c]
  ELSE c

\* does the literal pattern pat match s at index i (ignoreCase: the /i flag)
MatchAt(s, i, pat, ignoreCase) ==
  /\ i + Len(pat) - 1 <= Len(s)
  /\ \A k \in 1..Len(pat) :
       IF ignoreCase THEN ToLower(s[i + k - 1]) = ToLower(pat[k])
       ELSE s[i + k - 1] = pat[k]

\* index of the leftmost match, 0 when there is none (pattern.test(move))
FindFirst(s, pat, ignoreCase) ==
  LET hits == {i \in 1..Len(s) : MatchAt(s, i, pat, ignoreCase)}
  IN IF hits = {} THEN 0 ELSE CHOOSE i \in hits : \A j \in hits : i <= j

\* move.replace(pattern, replacement) without the /g flag
ReplaceFirst(s, pat, rep, ignoreCase) ==
  LET i == FindFirst(s, pat, ignoreCase)
  IN IF i = 0 THEN s ELSE Take(s, i - 1) \o rep \o Drop(s, i - 1 + Len(pat))

\* move.replace(pattern, replacement) with the /g flag
RECURSIVE ReplaceAll(_, _, _, _)
ReplaceAll(s, pat, rep, ignoreCase) ==
  LET i == FindFirst(s, pat, ignoreCase)
  IN IF i = 0 THEN s
     ELSE Take(s, i - 1) \o rep
            \o ReplaceAll(Drop(s, i - 1 + Len(pat)), pat, rep, ignoreCase)

(***************************************************************************)
(* chess-validator.js                                                      *)
(***************************************************************************)
\* a variant: the table without its first entry, H for 4
OCR_SUBSTITUTIONS_WithoutH ==
  ("h" :> <<"4">>) @@ ("b" :> <<"6">>) @@ ("l" :> <<"1">>) @@ ("o" :> <<"0">>) @@
  ("O" :> <<"0">>) @@ ("I" :> <<"1">>) @@ ("S" :> <<"5">>) @@ ("Z" :> <<"2">>) @@
  ("G" :> <<"6">>)

OCR_SUBSTITUTIONS ==
  ("H" :> <<"4">>) @@ ("h" :> <<"4">>) @@ ("b" :> <<"6">>) @@ ("l" :> <<"1">>) @@
  ("o" :> <<"0">>) @@ ("O" :> <<"0">>) @@ ("I" :> <<"1">>) @@ ("S" :> <<"5">>) @@
  ("Z" :> <<"2">>) @@ ("G" :> <<"6">>)

castlingPatterns ==
  << [pattern |-> <<"o", "-", "o">>, ignoreCase |-> TRUE, global |-> FALSE,
      replacement |-> <<"0", "-", "0">>],
     [pattern |-> <<"O", "-", "O">>, ignoreCase |-> FALSE, global |-> TRUE,
      replacement |-> <<"0", "-", "0">>],
     [pattern |-> <<"0", "-", "0", "-", "0">>, ignoreCase |-> FALSE, global |-> TRUE,
      replacement |-> <<"0", "-", "0", "-", "0">>],
     [pattern |-> <<"o", "-", "o", "-", "o">>, ignoreCase |-> TRUE, global |-> FALSE,
      replacement |-> <<"0", "-", "0", "-", "0">>],
     [pattern |-> <<"0", "0">>, ignoreCase |-> FALSE, global |-> TRUE,
      replacement |-> <<"0", "-", "0">>],
     [pattern |-> <<"0", "0", "0">>, ignoreCase |-> FALSE, global |-> TRUE,
      replacement |-> <<"0", "-", "0", "-", "0">>] >>

\* candidates.add(candidate): a Set keeps insertion order and drops repeats
SetAdd(candidates, candidate) ==
  IF candidate \in Range(candidates) THEN candidates ELSE Append(candidates, candidate)

RECURSIVE AddReplacements(_, _, _, _)
AddReplacements(candidates, move, i, replacements) ==
  IF replacements = <<>> THEN candidates
  ELSE AddReplacements(
         SetAdd(candidates, Take(move, i - 1) \o <<Head(replacements)>> \o Drop(move, i)),
         move, i, Tail(replacements))

RECURSIVE AddSubstitutions(_, _, _)
AddSubstitutions(candidates, move, i) ==
  IF i > Len(move) THEN candidates
  ELSE IF move[i] \in DOMAIN OCR_SUBSTITUTIONS
       THEN AddSubstitutions(
              AddReplacements(candidates, move, i, OCR_SUBSTITUTIONS[move[i]]),
              move, i + 1)
       ELSE AddSubstitutions(candidates, move, i + 1)

RECURSIVE AddCastling(_, _, _)
AddCastling(candidates, move, k) ==
  IF k > Len(castlingPatterns) THEN candidates
  ELSE LET p == castlingPatterns[k]
       IN IF FindFirst(move, p.pattern, p.ignoreCase) # 0
          THEN AddCastling(
                 SetAdd(candidates,
                        IF p.global
                        THEN ReplaceAll(move, p.pattern, p.replacement, p.ignoreCase)
                        ELSE ReplaceFirst(move, p.pattern, p.replacement, p.ignoreCase)),
                 move, k + 1)
          ELSE AddCastling(candidates, move, k + 1)

\* a variant: the castling rewrites are added before the substitutions
generateFuzzyMatchesCastlingFirst(move) ==
  AddSubstitutions(AddCastling(<<move>>, move, 1), move, 1)

generateFuzzyMatches(move) ==
  AddCastling(AddSubstitutions(<<move>>, move, 1), move, 1)

\* a variant: the text trimmed and cut at its first whitespace, a leading
\* number left in place
extractMoveNotationKeepingNumber(text) ==
  LET cleaned == Trim(text)
      first == FirstPart(cleaned)
  IN IF first # <<>> THEN first ELSE cleaned

\* extractMoveNotation(text)
extractMoveNotation(text) ==
  LET cleaned == Trim(StripMoveNumber(text))
      first == FirstPart(cleaned)
  IN IF first # <<>> THEN first ELSE cleaned

(***************************************************************************)
(* The rules library (chess.js) as the validator uses it.  A board is the  *)
(* game's move history together with the position it leads to.  Legal      *)
(* lists the legal moves of every position of the fragment of the game     *)
(* tree the bounded inputs can reach, in the library's enumeration order,  *)
(* as pairs <<index into San, position after the move>>.  Position 1 is    *)
(* the initial position.  Successor 0 marks a position outside the         *)
(* tabulated fragment; OnTable states that no run reaches it.  The         *)
(* operators take the library, Chess, as their first argument.             *)
(*                                                                         *)
(* The repository does not pin the version of the library.  Its releases   *)
(* differ in one respect the validator meets: the later ones read 0-0 and  *)
(* 0-0-0, written with zeros, as castling in move(); the earlier ones know *)
(* castling with the letter O only.  zeroCastling says which one is        *)
(* installed.                                                              *)
(***************************************************************************)
San ==
  << <<"a","3">>, <<"a","4">>, <<"b","3">>, <<"b","4">>, <<"c","3">>, <<"c","4">>, <<"d","3">>, <<"d","4">>,
     <<"e","3">>, <<"e","4">>, <<"f","3">>, <<"f","4">>, <<"g","3">>, <<"g","4">>, <<"h","3">>, <<"h","4">>,
     <<"N","a","3">>, <<"N","c","3">>, <<"N","f","3">>, <<"N","h","3">>, <<"N","c","6">>, <<"N","a","6">>, <<"N","h","6">>, <<"N","f","6">>,
     <<"a","6">>, <<"a","5">>, <<"b","6">>, <<"b","5">>, <<"c","6">>, <<"c","5">>, <<"d","6">>, <<"d","5">>,
     <<"e","6">>, <<"e","5">>, <<"f","6">>, <<"f","5">>, <<"g","6">>, <<"g","5">>, <<"h","6">>, <<"h","5">>,
     <<"Q","e","2">>, <<"Q","f","3">>, <<"Q","g","4">>, <<"Q","h","5">>, <<"K","e","2">>, <<"B","e","2">>, <<"B","d","3">>, <<"B","c","4">>,
     <<"B","b","5">>, <<"B","a","6">>, <<"N","e","2">>, <<"Q","e","7">>, <<"Q","f","6">>, <<"Q","g","5">>, <<"Q","h","4">>, <<"K","e","7">>,
     <<"B","e","7">>, <<"B","d","6">>, <<"B","c","5">>, <<"B","b","4">>, <<"B","a","3">>, <<"N","e","7">>, <<"N","d","4">>, <<"N","x","e","5">>,
     <<"N","g","5">>, <<"N","h","4">>, <<"N","g","1">>, <<"R","g","1">>, <<"R","b","8">>, <<"N","g","e","7">>, <<"N","b","8">>, <<"N","c","e","7">>,
     <<"N","b","4">>, <<"N","a","5">>, <<"B","d","5">>, <<"B","e","6">>, <<"B","x","f","7","+">>, <<"B","f","1">>, <<"B","b","3">>, <<"K","f","1">>,
     <<"R","f","1">>, <<"O","-","O">>, <<"K","f","2">>, <<"Q","h","4","#">>, <<"B","x","a","6">>, <<"B","x","a","3">>, <<"K","f","8">>, <<"d","x","e","6">>,
     <<"f","x","e","6">>, <<"B","b","6">>, <<"B","f","8">>, <<"B","d","4">>, <<"B","e","3">>, <<"B","x","f","2","+">>, <<"Q","h","4","+">>, <<"e","x","f","4">>,
     <<"f","x","e","4">>, <<"B","g","2">>, <<"B","h","3">>, <<"R","a","2">>, <<"R","a","7">>, <<"R","a","3">>, <<"K","d","8">>, <<"Q","d","8">>,
     <<"Q","e","6">>, <<"Q","d","6">>, <<"Q","c","5">>, <<"Q","b","4">>, <<"Q","x","a","3">>, <<"Q","x","e","5">>, <<"Q","a","3">>, <<"R","a","6">>,
     <<"N","x","c","6">>, <<"N","x","d","7">>, <<"N","x","f","7">>, <<"N","g","6">>, <<"N","g","4">>, <<"N","d","3">>, <<"N","c","4">>, <<"Q","x","e","6">>,
     <<"N","d","8">>, <<"N","a","7">>, <<"a","x","b","5">>, <<"B","x","d","7","+">>, <<"B","f","5">>, <<"B","g","4">>, <<"B","x","c","6">>, <<"B","a","4">>,
     <<"N","e","1">>, <<"Q","e","1">>, <<"R","e","1">>, <<"K","h","1">>, <<"B","a","2">>, <<"f","x","e","5">>, <<"e","x","f","3">>, <<"Q","x","g","5">>,
     <<"B","x","b","5">>, <<"Q","x","b","4">>, <<"B","x","b","4">>, <<"a","x","b","4">>, <<"b","x","a","3">>, <<"R","x","a","3">>, <<"N","x","a","3">>, <<"B","x","d","7">>,
     <<"K","x","d","7">>, <<"Q","e","5">>, <<"Q","x","e","4","+">>, <<"Q","x","d","7">>, <<"N","e","5">>, <<"N","x","a","5">>, <<"N","x","b","4">>, <<"B","x","c","6","+">>,
     <<"e","x","d","5">>, <<"B","x","a","4">>, <<"Q","f","8">>, <<"B","a","7">>, <<"d","x","e","3">> >>

Legal ==
  << <<<<1,13>>,<<2,0>>,<<3,0>>,<<4,0>>,<<5,0>>,<<6,0>>,<<7,0>>,<<8,0>>,<<9,12>>,<<10,2>>,<<11,8>>,<<12,0>>,<<13,0>>,<<14,0>>,<<15,0>>,<<16,0>>,<<17,0>>,<<18,0>>,<<19,0>>,<<20,0>>>>,
     <<<<21,0>>,<<22,0>>,<<23,0>>,<<24,0>>,<<25,15>>,<<26,0>>,<<27,0>>,<<28,0>>,<<29,0>>,<<30,0>>,<<31,0>>,<<32,0>>,<<33,14>>,<<34,3>>,<<35,0>>,<<36,0>>,<<37,0>>,<<38,0>>,<<39,0>>,<<40,0>>>>,
     <<<<1,16>>,<<2,17>>,<<3,0>>,<<4,0>>,<<5,0>>,<<6,0>>,<<7,0>>,<<8,0>>,<<11,0>>,<<12,0>>,<<13,0>>,<<14,0>>,<<15,0>>,<<16,0>>,<<17,0>>,<<18,0>>,<<41,0>>,<<42,0>>,<<43,0>>,<<44,0>>,<<45,0>>,<<46,0>>,<<47,0>>,<<48,0>>,<<49,0>>,<<50,0>>,<<51,0>>,<<19,4>>,<<20,0>>>>,
     <<<<21,5>>,<<22,0>>,<<52,18>>,<<53,0>>,<<54,0>>,<<55,0>>,<<56,0>>,<<57,0>>,<<58,0>>,<<59,0>>,<<60,0>>,<<61,0>>,<<23,0>>,<<24,0>>,<<62,0>>,<<25,20>>,<<26,19>>,<<27,0>>,<<28,0>>,<<29,0>>,<<30,0>>,<<31,0>>,<<32,0>>,<<35,0>>,<<36,0>>,<<37,0>>,<<38,0>>,<<39,0>>,<<40,0>>>>,
     <<<<63,0>>,<<64,22>>,<<65,0>>,<<66,0>>,<<67,0>>,<<1,21>>,<<2,23>>,<<3,0>>,<<4,0>>,<<5,0>>,<<6,0>>,<<7,0>>,<<8,0>>,<<13,0>>,<<14,0>>,<<15,0>>,<<16,0>>,<<17,0>>,<<18,0>>,<<41,0>>,<<45,0>>,<<46,0>>,<<47,0>>,<<48,6>>,<<49,0>>,<<50,0>>,<<68,0>>>>,
     <<<<69,0>>,<<52,24>>,<<53,0>>,<<54,0>>,<<55,0>>,<<56,0>>,<<57,0>>,<<58,0>>,<<59,7>>,<<60,0>>,<<61,0>>,<<23,0>>,<<24,0>>,<<70,0>>,<<25,26>>,<<26,25>>,<<27,0>>,<<28,0>>,<<31,0>>,<<32,0>>,<<35,0>>,<<36,0>>,<<37,0>>,<<38,0>>,<<39,0>>,<<40,0>>,<<71,0>>,<<72,0>>,<<63,0>>,<<73,0>>,<<74,0>>>>,
     <<<<49,28>>,<<50,0>>,<<75,0>>,<<76,27>>,<<77,0>>,<<47,0>>,<<46,0>>,<<78,0>>,<<79,0>>,<<63,0>>,<<64,0>>,<<65,0>>,<<66,0>>,<<67,0>>,<<1,30>>,<<2,31>>,<<3,0>>,<<4,0>>,<<5,0>>,<<7,0>>,<<8,0>>,<<13,0>>,<<14,0>>,<<15,0>>,<<16,0>>,<<17,0>>,<<18,0>>,<<41,0>>,<<45,0>>,<<80,0>>,<<68,0>>,<<81,0>>,<<82,29>>>>,
     <<<<21,0>>,<<22,0>>,<<23,0>>,<<24,0>>,<<25,33>>,<<26,0>>,<<27,0>>,<<28,0>>,<<29,0>>,<<30,0>>,<<31,0>>,<<32,0>>,<<33,32>>,<<34,9>>,<<35,0>>,<<36,0>>,<<37,0>>,<<38,0>>,<<39,0>>,<<40,0>>>>,
     <<<<12,36>>,<<1,0>>,<<2,0>>,<<3,0>>,<<4,0>>,<<5,0>>,<<6,0>>,<<7,0>>,<<8,0>>,<<9,35>>,<<10,34>>,<<13,0>>,<<14,10>>,<<15,0>>,<<16,0>>,<<17,0>>,<<18,0>>,<<83,0>>,<<20,0>>>>,
     <<<<21,0>>,<<22,0>>,<<52,40>>,<<53,0>>,<<54,0>>,<<84,11>>,<<56,0>>,<<57,0>>,<<58,0>>,<<59,0>>,<<60,0>>,<<61,0>>,<<23,0>>,<<24,0>>,<<62,0>>,<<25,39>>,<<26,38>>,<<27,0>>,<<28,0>>,<<29,0>>,<<30,0>>,<<31,0>>,<<32,0>>,<<35,0>>,<<36,0>>,<<37,0>>,<<38,0>>,<<39,0>>,<<40,0>>,<<10,37>>>>,
     <<>>,
     <<<<21,0>>,<<22,0>>,<<23,0>>,<<24,0>>,<<25,43>>,<<26,0>>,<<27,0>>,<<28,0>>,<<29,0>>,<<30,0>>,<<31,0>>,<<32,0>>,<<33,41>>,<<34,42>>,<<35,0>>,<<36,0>>,<<37,0>>,<<38,0>>,<<39,0>>,<<40,0>>>>,
     <<<<21,0>>,<<22,0>>,<<23,0>>,<<24,0>>,<<25,46>>,<<26,0>>,<<27,0>>,<<28,0>>,<<29,0>>,<<30,0>>,<<31,0>>,<<32,0>>,<<33,44>>,<<34,45>>,<<35,0>>,<<36,0>>,<<37,0>>,<<38,0>>,<<39,0>>,<<40,0>>>>,
     <<<<34,47>>,<<1,0>>,<<2,0>>,<<3,0>>,<<4,0>>,<<5,0>>,<<6,0>>,<<7,0>>,<<8,0>>,<<11,0>>,<<12,0>>,<<13,0>>,<<14,0>>,<<15,0>>,<<16,0>>,<<17,0>>,<<18,0>>,<<41,0>>,<<42,0>>,<<43,0>>,<<44,0>>,<<45,0>>,<<46,0>>,<<47,0>>,<<48,0>>,<<49,0>>,<<50,0>>,<<51,0>>,<<19,0>>,<<20,0>>>>,
     <<<<34,48>>,<<1,0>>,<<2,0>>,<<3,0>>,<<4,0>>,<<5,0>>,<<6,0>>,<<7,0>>,<<8,0>>,<<11,0>>,<<12,0>>,<<13,0>>,<<14,0>>,<<15,0>>,<<16,0>>,<<17,0>>,<<18,0>>,<<41,0>>,<<42,0>>,<<43,0>>,<<44,0>>,<<45,0>>,<<46,0>>,<<47,0>>,<<48,0>>,<<49,0>>,<<85,0>>,<<51,0>>,<<19,0>>,<<20,0>>>>,
     <<<<21,0>>,<<22,0>>,<<52,49>>,<<53,0>>,<<54,0>>,<<55,0>>,<<56,0>>,<<57,0>>,<<58,0>>,<<59,0>>,<<60,0>>,<<86,0>>,<<23,0>>,<<24,0>>,<<62,0>>,<<25,51>>,<<26,50>>,<<27,0>>,<<28,0>>,<<29,0>>,<<30,0>>,<<31,0>>,<<32,0>>,<<35,0>>,<<36,0>>,<<37,0>>,<<38,0>>,<<39,0>>,<<40,0>>>>,
     <<<<21,0>>,<<22,0>>,<<52,52>>,<<53,0>>,<<54,0>>,<<55,0>>,<<56,0>>,<<57,0>>,<<58,0>>,<<59,0>>,<<60,0>>,<<61,0>>,<<23,0>>,<<24,0>>,<<62,0>>,<<25,54>>,<<26,53>>,<<27,0>>,<<28,0>>,<<29,0>>,<<30,0>>,<<31,0>>,<<32,0>>,<<35,0>>,<<36,0>>,<<37,0>>,<<38,0>>,<<39,0>>,<<40,0>>>>,
     <<<<63,0>>,<<64,56>>,<<65,0>>,<<66,0>>,<<67,0>>,<<1,55>>,<<2,57>>,<<3,0>>,<<4,0>>,<<5,0>>,<<6,0>>,<<7,0>>,<<8,0>>,<<13,0>>,<<14,0>>,<<15,0>>,<<16,0>>,<<17,0>>,<<18,0>>,<<41,0>>,<<45,0>>,<<46,0>>,<<47,0>>,<<48,0>>,<<49,0>>,<<50,0>>,<<68,0>>>>,
     <<<<63,0>>,<<64,59>>,<<65,0>>,<<66,0>>,<<67,0>>,<<1,58>>,<<2,60>>,<<3,0>>,<<4,0>>,<<5,0>>,<<6,0>>,<<7,0>>,<<8,0>>,<<13,0>>,<<14,0>>,<<15,0>>,<<16,0>>,<<17,0>>,<<18,0>>,<<41,0>>,<<45,0>>,<<46,0>>,<<47,0>>,<<48,0>>,<<49,0>>,<<50,0>>,<<68,0>>>>,
     <<<<63,0>>,<<64,62>>,<<65,0>>,<<66,0>>,<<67,0>>,<<1,61>>,<<2,63>>,<<3,0>>,<<4,0>>,<<5,0>>,<<6,0>>,<<7,0>>,<<8,0>>,<<13,0>>,<<14,0>>,<<15,0>>,<<16,0>>,<<17,0>>,<<18,0>>,<<41,0>>,<<45,0>>,<<46,0>>,<<47,0>>,<<48,0>>,<<49,0>>,<<85,0>>,<<68,0>>>>,
     <<<<69,0>>,<<52,64>>,<<53,0>>,<<54,0>>,<<55,0>>,<<56,0>>,<<57,0>>,<<58,0>>,<<59,0>>,<<60,0>>,<<86,0>>,<<23,0>>,<<24,0>>,<<70,0>>,<<25,66>>,<<26,65>>,<<27,0>>,<<28,0>>,<<31,0>>,<<32,0>>,<<35,0>>,<<36,0>>,<<37,0>>,<<38,0>>,<<39,0>>,<<40,0>>,<<71,0>>,<<72,0>>,<<63,0>>,<<73,0>>,<<74,0>>>>,
     <<<<69,0>>,<<52,67>>,<<53,0>>,<<54,0>>,<<55,0>>,<<56,0>>,<<57,0>>,<<58,0>>,<<59,0>>,<<60,0>>,<<61,0>>,<<23,0>>,<<24,0>>,<<70,0>>,<<25,69>>,<<26,68>>,<<27,0>>,<<28,0>>,<<31,0>>,<<32,0>>,<<35,0>>,<<36,0>>,<<37,0>>,<<38,0>>,<<39,0>>,<<40,0>>,<<71,0>>,<<72,0>>,<<64,0>>,<<63,0>>,<<73,0>>,<<74,0>>>>,
     <<<<69,0>>,<<52,70>>,<<53,0>>,<<54,0>>,<<55,0>>,<<56,0>>,<<57,0>>,<<58,0>>,<<59,0>>,<<60,0>>,<<61,0>>,<<23,0>>,<<24,0>>,<<70,0>>,<<25,72>>,<<26,71>>,<<27,0>>,<<28,0>>,<<31,0>>,<<32,0>>,<<35,0>>,<<36,0>>,<<37,0>>,<<38,0>>,<<39,0>>,<<40,0>>,<<71,0>>,<<72,0>>,<<63,0>>,<<73,0>>,<<74,0>>>>,
     <<<<49,74>>,<<50,0>>,<<75,0>>,<<76,73>>,<<77,0>>,<<47,0>>,<<46,0>>,<<78,0>>,<<79,0>>,<<63,0>>,<<64,0>>,<<65,0>>,<<66,0>>,<<67,0>>,<<1,76>>,<<2,77>>,<<3,0>>,<<4,0>>,<<5,0>>,<<7,0>>,<<8,0>>,<<13,0>>,<<14,0>>,<<15,0>>,<<16,0>>,<<17,0>>,<<18,0>>,<<41,0>>,<<45,0>>,<<80,0>>,<<68,0>>,<<81,0>>,<<82,75>>>>,
     <<<<49,79>>,<<50,0>>,<<75,0>>,<<76,78>>,<<77,0>>,<<47,0>>,<<46,0>>,<<78,0>>,<<79,0>>,<<63,0>>,<<64,0>>,<<65,0>>,<<66,0>>,<<67,0>>,<<1,81>>,<<2,82>>,<<3,0>>,<<4,0>>,<<5,0>>,<<7,0>>,<<8,0>>,<<13,0>>,<<14,0>>,<<15,0>>,<<16,0>>,<<17,0>>,<<18,0>>,<<41,0>>,<<45,0>>,<<80,0>>,<<68,0>>,<<81,0>>,<<82,80>>>>,
     <<<<49,84>>,<<85,0>>,<<75,0>>,<<76,83>>,<<77,0>>,<<47,0>>,<<46,0>>,<<78,0>>,<<79,0>>,<<63,0>>,<<64,0>>,<<65,0>>,<<66,0>>,<<67,0>>,<<1,86>>,<<2,87>>,<<3,0>>,<<4,0>>,<<5,0>>,<<7,0>>,<<8,0>>,<<13,0>>,<<14,0>>,<<15,0>>,<<16,0>>,<<17,0>>,<<18,0>>,<<41,0>>,<<45,0>>,<<80,0>>,<<68,0>>,<<81,0>>,<<82,85>>>>,
     <<<<69,0>>,<<52,88>>,<<53,0>>,<<54,0>>,<<55,0>>,<<87,0>>,<<56,0>>,<<23,0>>,<<24,0>>,<<70,0>>,<<25,90>>,<<26,89>>,<<27,0>>,<<28,0>>,<<31,0>>,<<32,0>>,<<88,0>>,<<35,0>>,<<36,0>>,<<89,0>>,<<37,0>>,<<38,0>>,<<39,0>>,<<40,0>>,<<71,0>>,<<72,0>>,<<63,0>>,<<73,0>>,<<74,0>>,<<90,0>>,<<58,0>>,<<57,0>>,<<91,0>>,<<92,0>>,<<93,0>>,<<94,0>>,<<60,0>>,<<61,0>>>>,
     <<<<69,0>>,<<52,91>>,<<53,0>>,<<54,0>>,<<55,0>>,<<87,0>>,<<56,0>>,<<23,0>>,<<24,0>>,<<70,0>>,<<25,93>>,<<26,92>>,<<27,0>>,<<31,0>>,<<32,0>>,<<35,0>>,<<36,0>>,<<37,0>>,<<38,0>>,<<39,0>>,<<40,0>>,<<71,0>>,<<72,0>>,<<63,0>>,<<73,0>>,<<74,0>>,<<90,0>>,<<58,0>>,<<57,0>>,<<91,0>>,<<92,0>>,<<93,0>>,<<94,0>>,<<60,0>>,<<61,0>>>>,
     <<<<69,0>>,<<52,94>>,<<53,0>>,<<54,0>>,<<55,0>>,<<87,0>>,<<56,0>>,<<23,0>>,<<24,0>>,<<70,0>>,<<25,96>>,<<26,95>>,<<27,0>>,<<28,0>>,<<31,0>>,<<32,0>>,<<35,0>>,<<36,0>>,<<37,0>>,<<38,0>>,<<39,0>>,<<40,0>>,<<71,0>>,<<72,0>>,<<63,0>>,<<73,0>>,<<74,0>>,<<90,0>>,<<58,0>>,<<57,0>>,<<91,0>>,<<92,0>>,<<93,0>>,<<94,0>>,<<60,0>>,<<61,0>>>>,
     <<<<69,0>>,<<52,97>>,<<53,0>>,<<54,0>>,<<55,0>>,<<87,0>>,<<56,0>>,<<23,0>>,<<24,0>>,<<70,0>>,<<25,99>>,<<26,98>>,<<27,0>>,<<28,0>>,<<31,0>>,<<32,0>>,<<35,0>>,<<36,0>>,<<37,0>>,<<38,0>>,<<39,0>>,<<40,0>>,<<71,0>>,<<72,0>>,<<63,0>>,<<73,0>>,<<74,0>>,<<90,0>>,<<58,0>>,<<57,0>>,<<91,0>>,<<92,0>>,<<93,0>>,<<94,0>>,<<60,0>>,<<86,0>>>>,
     <<<<69,0>>,<<52,100>>,<<53,0>>,<<54,0>>,<<55,0>>,<<87,0>>,<<56,0>>,<<23,0>>,<<24,0>>,<<70,0>>,<<25,102>>,<<26,101>>,<<27,0>>,<<28,0>>,<<31,0>>,<<32,0>>,<<35,0>>,<<36,0>>,<<37,0>>,<<38,0>>,<<39,0>>,<<40,0>>,<<71,0>>,<<72,0>>,<<63,0>>,<<73,0>>,<<74,0>>,<<90,0>>,<<58,0>>,<<57,0>>,<<91,0>>,<<92,0>>,<<93,0>>,<<94,0>>,<<60,0>>,<<61,0>>>>,
     <<<<12,105>>,<<1,0>>,<<2,0>>,<<3,0>>,<<4,0>>,<<5,0>>,<<6,0>>,<<7,0>>,<<8,0>>,<<9,104>>,<<10,103>>,<<13,0>>,<<14,0>>,<<15,0>>,<<16,0>>,<<17,0>>,<<18,0>>,<<83,0>>,<<20,0>>>>,
     <<<<12,108>>,<<1,0>>,<<2,0>>,<<3,0>>,<<4,0>>,<<5,0>>,<<6,0>>,<<7,0>>,<<8,0>>,<<9,107>>,<<10,106>>,<<13,0>>,<<14,0>>,<<15,0>>,<<16,0>>,<<17,0>>,<<18,0>>,<<83,0>>,<<20,0>>>>,
     <<<<21,0>>,<<22,0>>,<<52,109>>,<<53,0>>,<<54,0>>,<<95,0>>,<<56,0>>,<<57,0>>,<<58,0>>,<<59,0>>,<<60,0>>,<<61,0>>,<<23,0>>,<<24,0>>,<<62,0>>,<<25,111>>,<<26,110>>,<<27,0>>,<<28,0>>,<<29,0>>,<<30,0>>,<<31,0>>,<<32,0>>,<<35,0>>,<<36,0>>,<<37,0>>,<<38,0>>,<<39,0>>,<<40,0>>>>,
     <<<<21,0>>,<<22,0>>,<<52,115>>,<<53,0>>,<<54,0>>,<<95,0>>,<<56,0>>,<<57,0>>,<<58,0>>,<<59,0>>,<<60,0>>,<<61,0>>,<<23,0>>,<<24,0>>,<<62,0>>,<<25,114>>,<<26,113>>,<<27,0>>,<<28,0>>,<<29,0>>,<<30,0>>,<<31,0>>,<<32,0>>,<<35,0>>,<<36,0>>,<<37,0>>,<<38,0>>,<<39,0>>,<<40,0>>,<<10,112>>>>,
     <<<<21,0>>,<<22,0>>,<<52,119>>,<<53,0>>,<<54,0>>,<<95,0>>,<<56,0>>,<<57,0>>,<<58,0>>,<<59,0>>,<<60,0>>,<<61,0>>,<<23,0>>,<<24,0>>,<<62,0>>,<<25,118>>,<<26,117>>,<<27,0>>,<<28,0>>,<<29,0>>,<<30,0>>,<<31,0>>,<<32,0>>,<<35,0>>,<<36,0>>,<<37,0>>,<<38,0>>,<<39,0>>,<<40,0>>,<<10,116>>,<<96,0>>>>,
     <<<<38,121>>,<<12,122>>,<<97,0>>,<<1,0>>,<<2,0>>,<<3,0>>,<<4,0>>,<<5,0>>,<<6,0>>,<<7,0>>,<<8,0>>,<<9,120>>,<<15,0>>,<<16,0>>,<<17,0>>,<<18,0>>,<<83,0>>,<<98,0>>,<<99,0>>,<<20,0>>>>,
     <<<<38,124>>,<<12,0>>,<<1,0>>,<<2,0>>,<<3,0>>,<<4,0>>,<<5,0>>,<<6,0>>,<<7,0>>,<<8,0>>,<<9,0>>,<<10,123>>,<<15,0>>,<<16,0>>,<<17,0>>,<<18,0>>,<<83,0>>,<<98,0>>,<<99,0>>,<<20,0>>>>,
     <<<<38,126>>,<<12,0>>,<<1,0>>,<<2,0>>,<<3,0>>,<<4,0>>,<<5,0>>,<<6,0>>,<<7,0>>,<<8,0>>,<<9,0>>,<<10,125>>,<<15,0>>,<<16,0>>,<<17,0>>,<<18,0>>,<<83,0>>,<<98,0>>,<<99,0>>,<<20,0>>>>,
     <<<<38,128>>,<<12,0>>,<<1,0>>,<<2,0>>,<<3,0>>,<<4,0>>,<<5,0>>,<<6,0>>,<<7,0>>,<<8,0>>,<<9,0>>,<<10,127>>,<<15,0>>,<<16,0>>,<<17,0>>,<<18,0>>,<<83,0>>,<<98,0>>,<<99,0>>,<<20,0>>>>,
     <<<<10,129>>,<<1,0>>,<<2,0>>,<<3,0>>,<<4,0>>,<<5,0>>,<<6,0>>,<<7,0>>,<<8,0>>,<<11,0>>,<<12,0>>,<<13,0>>,<<14,0>>,<<15,0>>,<<16,0>>,<<17,0>>,<<18,0>>,<<41,0>>,<<42,0>>,<<43,0>>,<<44,0>>,<<45,0>>,<<46,0>>,<<47,0>>,<<48,0>>,<<49,0>>,<<50,0>>,<<51,0>>,<<19,0>>,<<20,0>>>>,
     <<<<10,130>>,<<1,0>>,<<2,0>>,<<3,0>>,<<4,0>>,<<5,0>>,<<6,0>>,<<7,0>>,<<8,0>>,<<11,0>>,<<12,0>>,<<13,0>>,<<14,0>>,<<15,0>>,<<16,0>>,<<17,0>>,<<18,0>>,<<41,0>>,<<42,0>>,<<43,0>>,<<44,0>>,<<45,0>>,<<46,0>>,<<47,0>>,<<48,0>>,<<49,0>>,<<50,0>>,<<51,0>>,<<19,0>>,<<20,0>>>>,
     <<<<10,131>>,<<1,0>>,<<2,0>>,<<3,0>>,<<4,0>>,<<5,0>>,<<6,0>>,<<7,0>>,<<8,0>>,<<11,0>>,<<12,0>>,<<13,0>>,<<14,0>>,<<15,0>>,<<16,0>>,<<17,0>>,<<18,0>>,<<41,0>>,<<42,0>>,<<43,0>>,<<44,0>>,<<45,0>>,<<46,0>>,<<47,0>>,<<48,0>>,<<49,0>>,<<85,0>>,<<51,0>>,<<19,0>>,<<20,0>>>>,
     <<<<2,134>>,<<3,0>>,<<4,0>>,<<5,0>>,<<6,0>>,<<7,0>>,<<8,0>>,<<9,133>>,<<10,132>>,<<11,0>>,<<12,0>>,<<13,0>>,<<14,0>>,<<15,0>>,<<16,0>>,<<100,0>>,<<18,0>>,<<19,0>>,<<20,0>>>>,
     <<<<2,137>>,<<3,0>>,<<4,0>>,<<5,0>>,<<6,0>>,<<7,0>>,<<8,0>>,<<9,136>>,<<10,135>>,<<11,0>>,<<12,0>>,<<13,0>>,<<14,0>>,<<15,0>>,<<16,0>>,<<100,0>>,<<18,0>>,<<19,0>>,<<20,0>>>>,
     <<<<2,140>>,<<3,0>>,<<4,0>>,<<5,0>>,<<6,0>>,<<7,0>>,<<8,0>>,<<9,139>>,<<10,138>>,<<11,0>>,<<12,0>>,<<13,0>>,<<14,0>>,<<15,0>>,<<16,0>>,<<100,0>>,<<18,0>>,<<19,0>>,<<20,0>>>>,
     <<<<21,0>>,<<22,0>>,<<52,141>>,<<53,0>>,<<54,0>>,<<55,0>>,<<56,0>>,<<57,0>>,<<58,0>>,<<59,0>>,<<60,0>>,<<61,0>>,<<23,0>>,<<24,0>>,<<62,0>>,<<25,143>>,<<26,142>>,<<27,0>>,<<28,0>>,<<29,0>>,<<30,0>>,<<31,0>>,<<32,0>>,<<35,0>>,<<36,0>>,<<37,0>>,<<38,0>>,<<39,0>>,<<40,0>>>>,
     <<<<101,0>>,<<21,0>>,<<23,0>>,<<24,0>>,<<27,145>>,<<28,144>>,<<29,0>>,<<30,0>>,<<31,0>>,<<32,0>>,<<33,143>>,<<35,0>>,<<36,0>>,<<37,0>>,<<38,0>>,<<39,0>>,<<40,0>>,<<26,0>>>>,
     <<<<2,146>>,<<3,0>>,<<4,0>>,<<5,0>>,<<6,0>>,<<7,0>>,<<8,0>>,<<11,0>>,<<12,0>>,<<13,0>>,<<14,0>>,<<15,0>>,<<16,0>>,<<100,0>>,<<18,0>>,<<41,0>>,<<42,0>>,<<43,0>>,<<44,0>>,<<45,0>>,<<46,0>>,<<47,0>>,<<48,0>>,<<49,0>>,<<50,0>>,<<51,0>>,<<19,0>>,<<20,0>>>>,
     <<<<2,147>>,<<3,0>>,<<4,0>>,<<5,0>>,<<6,0>>,<<7,0>>,<<8,0>>,<<11,0>>,<<12,0>>,<<13,0>>,<<14,0>>,<<15,0>>,<<16,0>>,<<100,0>>,<<18,0>>,<<41,0>>,<<42,0>>,<<43,0>>,<<44,0>>,<<45,0>>,<<46,0>>,<<47,0>>,<<48,0>>,<<49,0>>,<<50,0>>,<<51,0>>,<<19,0>>,<<20,0>>>>,
     <<<<2,148>>,<<3,0>>,<<4,0>>,<<5,0>>,<<6,0>>,<<7,0>>,<<8,0>>,<<11,0>>,<<12,0>>,<<13,0>>,<<14,0>>,<<15,0>>,<<16,0>>,<<100,0>>,<<18,0>>,<<41,0>>,<<42,0>>,<<43,0>>,<<44,0>>,<<45,0>>,<<46,0>>,<<47,0>>,<<48,0>>,<<49,0>>,<<85,0>>,<<51,0>>,<<19,0>>,<<20,0>>>>,
     <<<<26,149>>,<<3,0>>,<<4,150>>,<<5,0>>,<<6,0>>,<<7,0>>,<<8,0>>,<<11,0>>,<<12,0>>,<<13,0>>,<<14,0>>,<<15,0>>,<<16,0>>,<<100,0>>,<<102,0>>,<<17,0>>,<<18,0>>,<<41,0>>,<<42,0>>,<<43,0>>,<<44,0>>,<<45,0>>,<<46,0>>,<<47,0>>,<<48,0>>,<<49,0>>,<<50,0>>,<<51,0>>,<<19,0>>,<<20,0>>>>,
     <<<<3,151>>,<<4,152>>,<<5,0>>,<<6,0>>,<<7,0>>,<<8,0>>,<<11,0>>,<<12,0>>,<<13,0>>,<<14,0>>,<<15,0>>,<<16,0>>,<<100,0>>,<<102,0>>,<<17,0>>,<<18,0>>,<<41,0>>,<<42,0>>,<<43,0>>,<<44,0>>,<<45,0>>,<<46,0>>,<<47,0>>,<<48,0>>,<<49,0>>,<<50,0>>,<<51,0>>,<<19,0>>,<<20,0>>>>,
     <<<<26,153>>,<<3,0>>,<<4,154>>,<<5,0>>,<<6,0>>,<<7,0>>,<<8,0>>,<<11,0>>,<<12,0>>,<<13,0>>,<<14,0>>,<<15,0>>,<<16,0>>,<<100,0>>,<<102,0>>,<<17,0>>,<<18,0>>,<<41,0>>,<<42,0>>,<<43,0>>,<<44,0>>,<<45,0>>,<<46,0>>,<<47,0>>,<<48,0>>,<<49,0>>,<<85,0>>,<<51,0>>,<<19,0>>,<<20,0>>>>,
     <<<<21,0>>,<<22,0>>,<<103,0>>,<<23,0>>,<<24,0>>,<<25,155>>,<<26,156>>,<<27,0>>,<<28,0>>,<<29,0>>,<<30,0>>,<<31,0>>,<<32,0>>,<<104,0>>,<<53,0>>,<<54,0>>,<<55,0>>,<<105,0>>,<<106,0>>,<<107,0>>,<<108,0>>,<<109,157>>,<<35,0>>,<<36,0>>,<<37,0>>,<<38,0>>,<<39,0>>,<<40,0>>>>,
     <<<<21,0>>,<<22,0>>,<<103,0>>,<<23,0>>,<<24,0>>,<<25,158>>,<<26,159>>,<<27,0>>,<<28,0>>,<<29,0>>,<<30,0>>,<<31,0>>,<<32,0>>,<<104,0>>,<<53,0>>,<<54,0>>,<<55,0>>,<<105,0>>,<<110,160>>,<<106,0>>,<<107,0>>,<<108,0>>,<<111,0>>,<<35,0>>,<<36,0>>,<<37,0>>,<<38,0>>,<<39,0>>,<<40,0>>>>,
     <<<<21,0>>,<<22,0>>,<<103,0>>,<<23,0>>,<<24,0>>,<<25,161>>,<<26,162>>,<<27,0>>,<<28,0>>,<<29,0>>,<<30,0>>,<<31,0>>,<<32,0>>,<<104,0>>,<<53,0>>,<<54,0>>,<<55,0>>,<<105,0>>,<<106,0>>,<<107,0>>,<<108,0>>,<<111,0>>,<<35,0>>,<<36,0>>,<<37,0>>,<<38,0>>,<<39,0>>,<<40,0>>>>,
     <<<<101,0>>,<<112,0>>,<<21,0>>,<<22,0>>,<<52,163>>,<<53,0>>,<<54,0>>,<<55,0>>,<<56,0>>,<<57,0>>,<<58,0>>,<<59,0>>,<<60,0>>,<<86,0>>,<<23,0>>,<<24,0>>,<<62,0>>,<<27,165>>,<<28,164>>,<<29,0>>,<<30,0>>,<<31,0>>,<<32,0>>,<<35,0>>,<<36,0>>,<<37,0>>,<<38,0>>,<<39,0>>,<<40,0>>,<<2,166>>>>,
     <<<<101,0>>,<<112,0>>,<<21,0>>,<<22,0>>,<<52,167>>,<<53,0>>,<<54,0>>,<<55,0>>,<<56,0>>,<<57,0>>,<<58,0>>,<<59,0>>,<<60,0>>,<<61,0>>,<<23,0>>,<<24,0>>,<<62,0>>,<<27,169>>,<<28,168>>,<<29,0>>,<<30,0>>,<<31,0>>,<<32,0>>,<<35,0>>,<<36,0>>,<<37,0>>,<<38,0>>,<<39,0>>,<<40,0>>,<<2,170>>>>,
     <<<<101,0>>,<<112,0>>,<<21,0>>,<<22,0>>,<<52,171>>,<<53,0>>,<<54,0>>,<<55,0>>,<<56,0>>,<<57,0>>,<<58,0>>,<<59,0>>,<<60,0>>,<<61,0>>,<<23,0>>,<<24,0>>,<<62,0>>,<<27,173>>,<<28,172>>,<<29,0>>,<<30,0>>,<<31,0>>,<<32,0>>,<<35,0>>,<<36,0>>,<<37,0>>,<<38,0>>,<<39,0>>,<<40,0>>>>,
     <<<<101,0>>,<<21,0>>,<<52,155>>,<<53,0>>,<<54,0>>,<<55,0>>,<<56,0>>,<<57,0>>,<<58,0>>,<<59,0>>,<<60,0>>,<<86,0>>,<<23,0>>,<<24,0>>,<<62,0>>,<<27,175>>,<<28,174>>,<<29,0>>,<<30,0>>,<<31,0>>,<<32,0>>,<<35,0>>,<<36,0>>,<<37,0>>,<<38,0>>,<<39,0>>,<<40,0>>,<<26,0>>>>,
     <<<<101,0>>,<<21,0>>,<<52,158>>,<<53,0>>,<<54,0>>,<<55,0>>,<<56,0>>,<<57,0>>,<<58,0>>,<<59,0>>,<<60,0>>,<<61,0>>,<<23,0>>,<<24,0>>,<<62,0>>,<<27,177>>,<<28,176>>,<<29,0>>,<<30,0>>,<<31,0>>,<<32,0>>,<<35,0>>,<<36,0>>,<<37,0>>,<<38,0>>,<<39,0>>,<<40,0>>,<<26,0>>>>,
     <<<<101,0>>,<<21,0>>,<<52,161>>,<<53,0>>,<<54,0>>,<<55,0>>,<<56,0>>,<<57,0>>,<<58,0>>,<<59,0>>,<<60,0>>,<<61,0>>,<<23,0>>,<<24,0>>,<<62,0>>,<<27,179>>,<<28,178>>,<<29,0>>,<<30,0>>,<<31,0>>,<<32,0>>,<<35,0>>,<<36,0>>,<<37,0>>,<<38,0>>,<<39,0>>,<<40,0>>,<<26,0>>>>,
     <<<<2,180>>,<<63,0>>,<<64,0>>,<<65,0>>,<<66,0>>,<<67,0>>,<<3,0>>,<<4,0>>,<<5,0>>,<<6,0>>,<<7,0>>,<<8,0>>,<<13,0>>,<<14,0>>,<<15,0>>,<<16,0>>,<<100,0>>,<<18,0>>,<<41,0>>,<<45,0>>,<<46,0>>,<<47,0>>,<<48,0>>,<<49,0>>,<<50,0>>,<<68,0>>>>,
     <<<<2,181>>,<<63,0>>,<<64,0>>,<<65,0>>,<<66,0>>,<<67,0>>,<<3,0>>,<<4,0>>,<<5,0>>,<<6,0>>,<<7,0>>,<<8,0>>,<<13,0>>,<<14,0>>,<<15,0>>,<<16,0>>,<<100,0>>,<<18,0>>,<<41,0>>,<<45,0>>,<<46,0>>,<<47,0>>,<<48,0>>,<<49,0>>,<<50,0>>,<<68,0>>>>,
     <<<<2,182>>,<<63,0>>,<<64,0>>,<<65,0>>,<<66,0>>,<<67,0>>,<<3,0>>,<<4,0>>,<<5,0>>,<<6,0>>,<<7,0>>,<<8,0>>,<<13,0>>,<<14,0>>,<<15,0>>,<<16,0>>,<<100,0>>,<<18,0>>,<<41,0>>,<<45,0>>,<<46,0>>,<<47,0>>,<<48,0>>,<<49,0>>,<<85,0>>,<<68,0>>>>,
     <<<<113,0>>,<<114,184>>,<<115,0>>,<<116,0>>,<<117,0>>,<<19,0>>,<<118,0>>,<<119,0>>,<<1,183>>,<<2,185>>,<<3,0>>,<<4,0>>,<<5,0>>,<<6,0>>,<<7,0>>,<<8,0>>,<<11,0>>,<<12,0>>,<<13,0>>,<<14,0>>,<<15,0>>,<<16,0>>,<<17,0>>,<<18,0>>,<<41,0>>,<<42,0>>,<<43,0>>,<<44,0>>,<<45,0>>,<<46,0>>,<<47,0>>,<<48,0>>,<<49,0>>,<<50,0>>,<<68,0>>>>,
     <<<<113,0>>,<<114,187>>,<<115,0>>,<<116,0>>,<<117,0>>,<<19,0>>,<<118,0>>,<<119,0>>,<<1,186>>,<<2,188>>,<<3,0>>,<<4,0>>,<<5,0>>,<<6,0>>,<<7,0>>,<<8,0>>,<<11,0>>,<<12,0>>,<<13,0>>,<<14,0>>,<<15,0>>,<<16,0>>,<<17,0>>,<<18,0>>,<<41,0>>,<<42,0>>,<<43,0>>,<<44,0>>,<<45,0>>,<<46,0>>,<<47,0>>,<<48,0>>,<<49,0>>,<<50,0>>,<<68,0>>>>,
     <<<<113,0>>,<<114,190>>,<<115,0>>,<<116,0>>,<<117,0>>,<<19,0>>,<<118,0>>,<<119,0>>,<<1,189>>,<<2,191>>,<<3,0>>,<<4,0>>,<<5,0>>,<<6,0>>,<<7,0>>,<<8,0>>,<<11,0>>,<<12,0>>,<<13,0>>,<<14,0>>,<<15,0>>,<<16,0>>,<<17,0>>,<<18,0>>,<<41,0>>,<<42,0>>,<<43,0>>,<<44,0>>,<<45,0>>,<<46,0>>,<<47,0>>,<<48,0>>,<<49,0>>,<<85,0>>,<<68,0>>>>,
     <<<<26,192>>,<<63,0>>,<<64,0>>,<<65,0>>,<<66,0>>,<<67,0>>,<<3,0>>,<<4,193>>,<<5,0>>,<<6,0>>,<<7,0>>,<<8,0>>,<<13,0>>,<<14,0>>,<<15,0>>,<<16,0>>,<<100,0>>,<<102,0>>,<<17,0>>,<<18,0>>,<<41,0>>,<<45,0>>,<<46,0>>,<<47,0>>,<<48,0>>,<<49,0>>,<<50,0>>,<<68,0>>>>,
     <<<<63,0>>,<<64,195>>,<<65,0>>,<<66,0>>,<<67,0>>,<<3,194>>,<<4,196>>,<<5,0>>,<<6,0>>,<<7,0>>,<<8,0>>,<<13,0>>,<<14,0>>,<<15,0>>,<<16,0>>,<<100,0>>,<<102,0>>,<<17,0>>,<<18,0>>,<<41,0>>,<<45,0>>,<<46,0>>,<<47,0>>,<<48,0>>,<<49,0>>,<<50,0>>,<<68,0>>>>,
     <<<<26,197>>,<<63,0>>,<<64,0>>,<<65,0>>,<<66,0>>,<<67,0>>,<<3,0>>,<<4,198>>,<<5,0>>,<<6,0>>,<<7,0>>,<<8,0>>,<<13,0>>,<<14,0>>,<<15,0>>,<<16,0>>,<<100,0>>,<<102,0>>,<<17,0>>,<<18,0>>,<<41,0>>,<<45,0>>,<<46,0>>,<<47,0>>,<<48,0>>,<<49,0>>,<<85,0>>,<<68,0>>>>,
     <<<<69,0>>,<<103,0>>,<<23,0>>,<<24,0>>,<<25,199>>,<<26,200>>,<<27,0>>,<<28,0>>,<<31,0>>,<<32,0>>,<<88,0>>,<<104,0>>,<<53,0>>,<<54,0>>,<<55,0>>,<<120,201>>,<<106,0>>,<<107,0>>,<<108,0>>,<<111,0>>,<<35,0>>,<<36,0>>,<<89,0>>,<<37,0>>,<<38,0>>,<<39,0>>,<<40,0>>,<<71,0>>,<<121,0>>,<<63,0>>,<<73,0>>,<<74,0>>>>,
     <<<<69,0>>,<<103,0>>,<<23,0>>,<<24,0>>,<<25,202>>,<<26,203>>,<<27,0>>,<<31,0>>,<<32,0>>,<<104,0>>,<<53,0>>,<<54,0>>,<<55,0>>,<<105,0>>,<<106,0>>,<<107,0>>,<<108,0>>,<<111,0>>,<<35,0>>,<<36,0>>,<<37,0>>,<<38,0>>,<<39,0>>,<<40,0>>,<<71,0>>,<<121,0>>,<<63,0>>,<<73,0>>,<<74,0>>>>,
     <<<<69,0>>,<<103,0>>,<<23,0>>,<<24,0>>,<<25,204>>,<<26,205>>,<<27,0>>,<<28,0>>,<<31,0>>,<<32,0>>,<<104,0>>,<<53,0>>,<<54,0>>,<<55,0>>,<<105,0>>,<<106,0>>,<<107,0>>,<<108,0>>,<<111,0>>,<<35,0>>,<<36,0>>,<<37,0>>,<<38,0>>,<<39,0>>,<<40,0>>,<<71,0>>,<<121,0>>,<<63,0>>,<<73,0>>,<<74,0>>>>,
     <<<<69,0>>,<<103,0>>,<<23,0>>,<<24,0>>,<<25,206>>,<<26,207>>,<<27,0>>,<<28,0>>,<<31,0>>,<<32,0>>,<<104,0>>,<<53,0>>,<<54,0>>,<<55,0>>,<<105,0>>,<<106,0>>,<<107,0>>,<<108,0>>,<<109,208>>,<<35,0>>,<<36,0>>,<<37,0>>,<<38,0>>,<<39,0>>,<<40,0>>,<<71,0>>,<<121,0>>,<<63,0>>,<<73,0>>,<<74,0>>>>,
     <<<<69,0>>,<<103,0>>,<<23,0>>,<<24,0>>,<<25,209>>,<<26,210>>,<<27,0>>,<<28,0>>,<<31,0>>,<<32,0>>,<<104,0>>,<<53,0>>,<<54,0>>,<<55,0>>,<<105,0>>,<<106,0>>,<<107,0>>,<<108,0>>,<<111,0>>,<<35,0>>,<<36,0>>,<<37,0>>,<<38,0>>,<<39,0>>,<<40,0>>,<<71,0>>,<<121,0>>,<<63,0>>,<<73,0>>,<<74,0>>>>,
     <<<<69,0>>,<<101,0>>,<<112,0>>,<<52,211>>,<<53,0>>,<<54,0>>,<<55,0>>,<<56,0>>,<<57,0>>,<<58,0>>,<<59,0>>,<<60,0>>,<<61,0>>,<<23,0>>,<<24,0>>,<<70,0>>,<<27,213>>,<<28,212>>,<<31,0>>,<<32,0>>,<<88,0>>,<<35,0>>,<<36,0>>,<<89,0>>,<<37,0>>,<<38,0>>,<<39,0>>,<<40,0>>,<<122,0>>,<<71,0>>,<<72,0>>,<<63,0>>,<<73,0>>,<<2,214>>>>,
     <<<<69,0>>,<<101,0>>,<<112,0>>,<<52,215>>,<<53,0>>,<<54,0>>,<<55,0>>,<<56,0>>,<<57,0>>,<<58,0>>,<<59,0>>,<<60,0>>,<<61,0>>,<<23,0>>,<<24,0>>,<<70,0>>,<<27,217>>,<<31,0>>,<<32,216>>,<<35,0>>,<<36,0>>,<<37,0>>,<<38,0>>,<<39,0>>,<<40,0>>,<<122,0>>,<<71,0>>,<<72,0>>,<<63,0>>,<<73,0>>,<<2,218>>>>,
     <<<<69,0>>,<<101,0>>,<<112,0>>,<<52,219>>,<<53,0>>,<<54,0>>,<<55,0>>,<<56,0>>,<<57,0>>,<<58,0>>,<<59,0>>,<<60,0>>,<<61,0>>,<<23,0>>,<<24,0>>,<<70,0>>,<<27,221>>,<<28,220>>,<<31,0>>,<<32,0>>,<<35,0>>,<<36,0>>,<<37,0>>,<<38,0>>,<<39,0>>,<<40,0>>,<<122,0>>,<<71,0>>,<<72,0>>,<<63,0>>,<<73,0>>,<<2,222>>>>,
     <<<<69,0>>,<<101,0>>,<<112,0>>,<<52,223>>,<<53,0>>,<<54,0>>,<<55,0>>,<<56,0>>,<<57,0>>,<<58,0>>,<<59,0>>,<<60,0>>,<<86,0>>,<<23,0>>,<<24,0>>,<<70,0>>,<<27,225>>,<<28,224>>,<<31,0>>,<<32,0>>,<<35,0>>,<<36,0>>,<<37,0>>,<<38,0>>,<<39,0>>,<<40,0>>,<<122,0>>,<<71,0>>,<<72,0>>,<<63,0>>,<<73,0>>,<<2,226>>>>,
     <<<<69,0>>,<<101,0>>,<<112,0>>,<<52,227>>,<<53,0>>,<<54,0>>,<<55,0>>,<<56,0>>,<<57,0>>,<<58,0>>,<<59,0>>,<<60,0>>,<<61,0>>,<<23,0>>,<<24,0>>,<<70,0>>,<<27,229>>,<<28,228>>,<<31,0>>,<<32,0>>,<<35,0>>,<<36,0>>,<<37,0>>,<<38,0>>,<<39,0>>,<<40,0>>,<<122,0>>,<<71,0>>,<<72,0>>,<<63,0>>,<<73,0>>>>,
     <<<<69,0>>,<<101,0>>,<<52,199>>,<<53,0>>,<<54,0>>,<<55,0>>,<<56,0>>,<<57,0>>,<<58,0>>,<<59,0>>,<<60,0>>,<<61,0>>,<<23,0>>,<<24,0>>,<<70,0>>,<<27,231>>,<<28,230>>,<<31,0>>,<<32,0>>,<<88,0>>,<<35,0>>,<<36,0>>,<<89,0>>,<<37,0>>,<<38,0>>,<<39,0>>,<<40,0>>,<<26,0>>,<<122,0>>,<<71,0>>,<<72,0>>,<<63,0>>,<<73,0>>,<<74,0>>>>,
     <<<<69,0>>,<<101,0>>,<<52,202>>,<<53,0>>,<<54,0>>,<<55,0>>,<<56,0>>,<<57,0>>,<<58,0>>,<<59,0>>,<<60,0>>,<<61,0>>,<<23,0>>,<<24,0>>,<<70,0>>,<<27,233>>,<<31,0>>,<<32,232>>,<<35,0>>,<<36,0>>,<<37,0>>,<<38,0>>,<<39,0>>,<<40,0>>,<<26,0>>,<<123,0>>,<<122,0>>,<<71,0>>,<<72,0>>,<<63,0>>,<<73,0>>,<<74,0>>>>,
     <<<<69,0>>,<<101,0>>,<<52,204>>,<<53,0>>,<<54,0>>,<<55,0>>,<<56,0>>,<<57,0>>,<<58,0>>,<<59,0>>,<<60,0>>,<<61,0>>,<<23,0>>,<<24,0>>,<<70,0>>,<<27,235>>,<<28,234>>,<<31,0>>,<<32,0>>,<<35,0>>,<<36,0>>,<<37,0>>,<<38,0>>,<<39,0>>,<<40,0>>,<<26,0>>,<<122,0>>,<<71,0>>,<<72,0>>,<<63,0>>,<<73,0>>,<<74,0>>>>,
     <<<<69,0>>,<<101,0>>,<<52,206>>,<<53,0>>,<<54,0>>,<<55,0>>,<<56,0>>,<<57,0>>,<<58,0>>,<<59,0>>,<<60,0>>,<<86,0>>,<<23,0>>,<<24,0>>,<<70,0>>,<<27,237>>,<<28,236>>,<<31,0>>,<<32,0>>,<<35,0>>,<<36,0>>,<<37,0>>,<<38,0>>,<<39,0>>,<<40,0>>,<<26,0>>,<<122,0>>,<<71,0>>,<<72,0>>,<<63,0>>,<<73,0>>,<<74,0>>>>,
     <<<<69,0>>,<<101,0>>,<<52,209>>,<<53,0>>,<<54,0>>,<<55,0>>,<<56,0>>,<<57,0>>,<<58,0>>,<<59,0>>,<<60,0>>,<<61,0>>,<<23,0>>,<<24,0>>,<<70,0>>,<<27,239>>,<<28,238>>,<<31,0>>,<<32,0>>,<<35,0>>,<<36,0>>,<<37,0>>,<<38,0>>,<<39,0>>,<<40,0>>,<<26,0>>,<<122,0>>,<<71,0>>,<<72,0>>,<<63,0>>,<<73,0>>,<<74,0>>>>,
     <<<<124,0>>,<<77,0>>,<<125,241>>,<<126,0>>,<<99,0>>,<<75,0>>,<<48,0>>,<<79,0>>,<<63,0>>,<<64,0>>,<<65,0>>,<<66,0>>,<<67,0>>,<<1,240>>,<<2,243>>,<<3,0>>,<<4,0>>,<<5,0>>,<<6,0>>,<<7,0>>,<<8,0>>,<<13,0>>,<<14,0>>,<<15,0>>,<<16,0>>,<<17,0>>,<<18,0>>,<<41,0>>,<<45,0>>,<<80,0>>,<<68,0>>,<<81,0>>,<<82,242>>>>,
     <<<<124,0>>,<<77,0>>,<<125,245>>,<<126,0>>,<<99,0>>,<<75,0>>,<<48,0>>,<<79,0>>,<<63,0>>,<<64,0>>,<<65,0>>,<<66,0>>,<<67,0>>,<<1,244>>,<<2,247>>,<<3,0>>,<<4,0>>,<<5,0>>,<<6,0>>,<<7,0>>,<<8,0>>,<<13,0>>,<<14,0>>,<<15,0>>,<<16,0>>,<<17,0>>,<<18,0>>,<<41,0>>,<<45,0>>,<<80,0>>,<<68,0>>,<<81,0>>,<<82,246>>>>,
     <<<<124,0>>,<<77,0>>,<<125,249>>,<<126,0>>,<<99,0>>,<<75,0>>,<<48,0>>,<<79,0>>,<<63,0>>,<<64,0>>,<<65,0>>,<<66,0>>,<<67,0>>,<<1,248>>,<<2,251>>,<<3,0>>,<<4,0>>,<<5,0>>,<<6,0>>,<<7,0>>,<<8,0>>,<<13,0>>,<<14,0>>,<<15,0>>,<<16,0>>,<<17,0>>,<<18,0>>,<<41,0>>,<<45,0>>,<<80,0>>,<<68,0>>,<<81,0>>,<<82,250>>>>,
     <<<<50,0>>,<<127,0>>,<<48,0>>,<<47,0>>,<<46,252>>,<<78,0>>,<<128,0>>,<<63,0>>,<<64,0>>,<<65,0>>,<<66,0>>,<<67,0>>,<<1,254>>,<<2,255>>,<<3,0>>,<<4,0>>,<<5,0>>,<<6,0>>,<<7,0>>,<<8,0>>,<<13,0>>,<<14,0>>,<<15,0>>,<<16,0>>,<<17,0>>,<<18,0>>,<<41,0>>,<<45,0>>,<<80,0>>,<<68,0>>,<<81,0>>,<<82,253>>>>,
     <<<<50,0>>,<<127,0>>,<<48,0>>,<<47,0>>,<<46,256>>,<<78,0>>,<<128,0>>,<<63,0>>,<<64,0>>,<<65,0>>,<<66,0>>,<<67,0>>,<<1,258>>,<<2,259>>,<<3,0>>,<<4,0>>,<<5,0>>,<<6,0>>,<<7,0>>,<<8,0>>,<<13,0>>,<<14,0>>,<<15,0>>,<<16,0>>,<<17,0>>,<<18,0>>,<<41,0>>,<<45,0>>,<<80,0>>,<<68,0>>,<<81,0>>,<<82,257>>>>,
     <<<<85,0>>,<<127,0>>,<<48,0>>,<<47,0>>,<<46,260>>,<<78,0>>,<<128,0>>,<<63,0>>,<<64,0>>,<<65,0>>,<<66,0>>,<<67,0>>,<<1,262>>,<<2,263>>,<<3,0>>,<<4,0>>,<<5,0>>,<<6,0>>,<<7,0>>,<<8,0>>,<<13,0>>,<<14,0>>,<<15,0>>,<<16,0>>,<<17,0>>,<<18,0>>,<<41,0>>,<<45,0>>,<<80,0>>,<<68,0>>,<<81,0>>,<<82,261>>>>,
     <<<<49,253>>,<<50,0>>,<<75,0>>,<<76,242>>,<<77,0>>,<<47,0>>,<<46,0>>,<<79,0>>,<<63,0>>,<<64,0>>,<<65,0>>,<<66,0>>,<<129,0>>,<<1,264>>,<<2,265>>,<<3,0>>,<<4,0>>,<<5,0>>,<<7,0>>,<<8,0>>,<<13,0>>,<<14,0>>,<<15,0>>,<<16,0>>,<<17,0>>,<<18,0>>,<<41,0>>,<<130,0>>,<<131,0>>,<<132,0>>>>,
     <<<<49,257>>,<<50,0>>,<<75,0>>,<<76,246>>,<<77,0>>,<<47,0>>,<<46,0>>,<<79,0>>,<<63,0>>,<<64,0>>,<<65,0>>,<<66,0>>,<<129,0>>,<<1,266>>,<<2,267>>,<<3,0>>,<<4,0>>,<<5,0>>,<<7,0>>,<<8,0>>,<<13,0>>,<<14,0>>,<<15,0>>,<<16,0>>,<<17,0>>,<<18,0>>,<<41,0>>,<<130,0>>,<<131,0>>,<<132,0>>>>,
     <<<<49,261>>,<<85,0>>,<<75,0>>,<<76,250>>,<<77,0>>,<<47,0>>,<<46,0>>,<<79,0>>,<<63,0>>,<<64,0>>,<<65,0>>,<<66,0>>,<<129,0>>,<<1,268>>,<<2,269>>,<<3,0>>,<<4,0>>,<<5,0>>,<<7,0>>,<<8,0>>,<<13,0>>,<<14,0>>,<<15,0>>,<<16,0>>,<<17,0>>,<<18,0>>,<<41,0>>,<<130,0>>,<<131,0>>,<<132,0>>>>,
     <<<<49,254>>,<<50,0>>,<<75,0>>,<<76,240>>,<<77,0>>,<<47,0>>,<<46,0>>,<<78,0>>,<<79,0>>,<<133,0>>,<<2,270>>,<<63,0>>,<<64,0>>,<<65,0>>,<<66,0>>,<<67,0>>,<<3,0>>,<<4,0>>,<<5,0>>,<<7,0>>,<<8,0>>,<<13,0>>,<<14,0>>,<<15,0>>,<<16,0>>,<<100,0>>,<<18,0>>,<<41,0>>,<<45,0>>,<<80,0>>,<<68,0>>,<<81,0>>,<<82,264>>>>,
     <<<<49,258>>,<<50,0>>,<<75,0>>,<<76,244>>,<<77,0>>,<<47,0>>,<<46,0>>,<<78,0>>,<<79,0>>,<<133,0>>,<<2,271>>,<<63,0>>,<<64,0>>,<<65,0>>,<<66,0>>,<<67,0>>,<<3,0>>,<<4,0>>,<<5,0>>,<<7,0>>,<<8,0>>,<<13,0>>,<<14,0>>,<<15,0>>,<<16,0>>,<<100,0>>,<<18,0>>,<<41,0>>,<<45,0>>,<<80,0>>,<<68,0>>,<<81,0>>,<<82,266>>>>,
     <<<<49,262>>,<<85,0>>,<<75,0>>,<<76,248>>,<<77,0>>,<<47,0>>,<<46,0>>,<<78,0>>,<<79,0>>,<<133,0>>,<<2,272>>,<<63,0>>,<<64,0>>,<<65,0>>,<<66,0>>,<<67,0>>,<<3,0>>,<<4,0>>,<<5,0>>,<<7,0>>,<<8,0>>,<<13,0>>,<<14,0>>,<<15,0>>,<<16,0>>,<<100,0>>,<<18,0>>,<<41,0>>,<<45,0>>,<<80,0>>,<<68,0>>,<<81,0>>,<<82,268>>>>,
     <<<<26,273>>,<<49,0>>,<<50,0>>,<<75,0>>,<<76,0>>,<<77,0>>,<<47,0>>,<<46,0>>,<<78,0>>,<<79,0>>,<<133,0>>,<<63,0>>,<<64,0>>,<<65,0>>,<<66,0>>,<<67,0>>,<<3,0>>,<<4,275>>,<<5,0>>,<<7,0>>,<<8,0>>,<<13,0>>,<<14,0>>,<<15,0>>,<<16,0>>,<<100,0>>,<<102,0>>,<<17,0>>,<<18,0>>,<<41,0>>,<<45,0>>,<<80,0>>,<<68,0>>,<<81,0>>,<<82,274>>>>,
     <<<<49,277>>,<<50,0>>,<<75,0>>,<<76,276>>,<<77,0>>,<<47,0>>,<<46,0>>,<<78,0>>,<<79,0>>,<<133,0>>,<<63,0>>,<<64,0>>,<<65,0>>,<<66,0>>,<<67,0>>,<<3,279>>,<<4,280>>,<<5,0>>,<<7,0>>,<<8,0>>,<<13,0>>,<<14,0>>,<<15,0>>,<<16,0>>,<<100,0>>,<<102,0>>,<<17,0>>,<<18,0>>,<<41,0>>,<<45,0>>,<<80,0>>,<<68,0>>,<<81,0>>,<<82,278>>>>,
     <<<<26,281>>,<<49,0>>,<<85,0>>,<<75,0>>,<<76,0>>,<<77,0>>,<<47,0>>,<<46,0>>,<<78,0>>,<<79,0>>,<<133,0>>,<<63,0>>,<<64,0>>,<<65,0>>,<<66,0>>,<<67,0>>,<<3,0>>,<<4,283>>,<<5,0>>,<<7,0>>,<<8,0>>,<<13,0>>,<<14,0>>,<<15,0>>,<<16,0>>,<<100,0>>,<<102,0>>,<<17,0>>,<<18,0>>,<<41,0>>,<<45,0>>,<<80,0>>,<<68,0>>,<<81,0>>,<<82,282>>>>,
     <<<<21,0>>,<<22,0>>,<<52,286>>,<<53,0>>,<<54,0>>,<<95,0>>,<<56,0>>,<<57,0>>,<<58,0>>,<<59,0>>,<<60,0>>,<<61,0>>,<<23,0>>,<<24,0>>,<<62,0>>,<<25,285>>,<<26,0>>,<<27,0>>,<<28,0>>,<<29,0>>,<<30,0>>,<<31,0>>,<<32,0>>,<<35,0>>,<<36,0>>,<<37,0>>,<<38,0>>,<<39,0>>,<<40,0>>,<<34,284>>>>,
     <<<<21,0>>,<<22,0>>,<<52,289>>,<<53,0>>,<<54,0>>,<<95,0>>,<<56,0>>,<<57,0>>,<<58,0>>,<<59,0>>,<<60,0>>,<<61,0>>,<<23,0>>,<<24,0>>,<<62,0>>,<<25,288>>,<<26,0>>,<<27,0>>,<<28,0>>,<<29,0>>,<<30,0>>,<<31,0>>,<<32,0>>,<<35,0>>,<<36,0>>,<<37,0>>,<<38,0>>,<<39,0>>,<<40,0>>,<<34,287>>>>,
     <<<<21,0>>,<<22,0>>,<<52,292>>,<<53,0>>,<<54,0>>,<<95,0>>,<<56,0>>,<<57,0>>,<<58,0>>,<<59,0>>,<<60,0>>,<<61,0>>,<<23,0>>,<<24,0>>,<<62,0>>,<<25,291>>,<<26,0>>,<<27,0>>,<<28,0>>,<<29,0>>,<<30,0>>,<<31,0>>,<<32,0>>,<<35,0>>,<<36,0>>,<<37,0>>,<<38,0>>,<<39,0>>,<<40,0>>,<<34,290>>>>,
     <<<<101,0>>,<<21,0>>,<<23,0>>,<<24,0>>,<<27,294>>,<<28,0>>,<<29,0>>,<<30,0>>,<<31,0>>,<<32,0>>,<<33,285>>,<<34,293>>,<<35,0>>,<<36,0>>,<<37,0>>,<<38,0>>,<<39,0>>,<<40,0>>,<<26,0>>>>,
     <<<<101,0>>,<<21,0>>,<<23,0>>,<<24,0>>,<<27,296>>,<<28,0>>,<<29,0>>,<<30,0>>,<<31,0>>,<<32,0>>,<<33,288>>,<<34,295>>,<<35,0>>,<<36,0>>,<<37,0>>,<<38,0>>,<<39,0>>,<<40,0>>,<<26,0>>>>,
     <<<<101,0>>,<<21,0>>,<<23,0>>,<<24,0>>,<<27,298>>,<<28,0>>,<<29,0>>,<<30,0>>,<<31,0>>,<<32,0>>,<<33,291>>,<<34,297>>,<<35,0>>,<<36,0>>,<<37,0>>,<<38,0>>,<<39,0>>,<<40,0>>,<<26,0>>>>,
     <<<<12,299>>,<<1,0>>,<<2,0>>,<<3,0>>,<<4,0>>,<<5,0>>,<<6,0>>,<<7,0>>,<<8,0>>,<<13,0>>,<<14,0>>,<<15,0>>,<<16,0>>,<<17,0>>,<<18,0>>,<<41,0>>,<<45,0>>,<<83,0>>,<<46,0>>,<<47,0>>,<<48,0>>,<<49,0>>,<<50,0>>,<<51,0>>,<<20,0>>>>,
     <<<<12,300>>,<<1,0>>,<<2,0>>,<<3,0>>,<<4,0>>,<<5,0>>,<<6,0>>,<<7,0>>,<<8,0>>,<<13,0>>,<<14,0>>,<<15,0>>,<<16,0>>,<<17,0>>,<<18,0>>,<<41,0>>,<<45,0>>,<<83,0>>,<<46,0>>,<<47,0>>,<<48,0>>,<<49,0>>,<<50,0>>,<<51,0>>,<<20,0>>>>,
     <<<<12,301>>,<<1,0>>,<<2,0>>,<<3,0>>,<<4,0>>,<<5,0>>,<<6,0>>,<<7,0>>,<<8,0>>,<<13,0>>,<<14,0>>,<<15,0>>,<<16,0>>,<<17,0>>,<<18,0>>,<<41,0>>,<<45,0>>,<<83,0>>,<<46,0>>,<<47,0>>,<<48,0>>,<<49,0>>,<<85,0>>,<<51,0>>,<<20,0>>>>,
     <<<<12,302>>,<<97,0>>,<<1,0>>,<<2,0>>,<<3,0>>,<<4,0>>,<<5,0>>,<<6,0>>,<<7,0>>,<<8,0>>,<<13,0>>,<<14,0>>,<<15,0>>,<<16,0>>,<<17,0>>,<<18,0>>,<<41,0>>,<<45,0>>,<<83,0>>,<<46,0>>,<<47,0>>,<<48,0>>,<<49,0>>,<<50,0>>,<<51,0>>,<<20,0>>>>,
     <<<<10,303>>,<<12,0>>,<<1,0>>,<<2,0>>,<<3,0>>,<<4,0>>,<<5,0>>,<<6,0>>,<<7,0>>,<<8,0>>,<<13,0>>,<<14,0>>,<<15,0>>,<<16,0>>,<<17,0>>,<<18,0>>,<<41,0>>,<<45,0>>,<<83,0>>,<<46,0>>,<<47,0>>,<<48,0>>,<<49,0>>,<<50,0>>,<<51,0>>,<<20,0>>>>,
     <<<<10,304>>,<<12,0>>,<<1,0>>,<<2,0>>,<<3,0>>,<<4,0>>,<<5,0>>,<<6,0>>,<<7,0>>,<<8,0>>,<<13,0>>,<<14,0>>,<<15,0>>,<<16,0>>,<<17,0>>,<<18,0>>,<<41,0>>,<<45,0>>,<<83,0>>,<<46,0>>,<<47,0>>,<<48,0>>,<<49,0>>,<<85,0>>,<<51,0>>,<<20,0>>>>,
     <<<<10,305>>,<<12,0>>,<<1,0>>,<<2,0>>,<<3,0>>,<<4,0>>,<<5,0>>,<<6,0>>,<<7,0>>,<<8,0>>,<<13,0>>,<<14,0>>,<<15,0>>,<<16,0>>,<<17,0>>,<<18,0>>,<<41,0>>,<<45,0>>,<<83,0>>,<<46,0>>,<<47,0>>,<<48,0>>,<<49,0>>,<<50,0>>,<<51,0>>,<<20,0>>>>,
     <<<<36,306>>,<<1,0>>,<<2,307>>,<<3,0>>,<<4,0>>,<<5,0>>,<<6,0>>,<<7,0>>,<<8,0>>,<<9,302>>,<<13,0>>,<<14,0>>,<<15,0>>,<<16,0>>,<<17,0>>,<<18,0>>,<<83,0>>,<<19,0>>,<<20,0>>>>,
     <<<<36,309>>,<<134,0>>,<<1,0>>,<<2,0>>,<<3,0>>,<<4,0>>,<<5,0>>,<<6,0>>,<<7,0>>,<<8,0>>,<<9,0>>,<<10,308>>,<<13,0>>,<<14,0>>,<<15,0>>,<<16,0>>,<<17,0>>,<<18,0>>,<<83,0>>,<<19,0>>,<<20,0>>>>,
     <<<<36,311>>,<<134,0>>,<<1,0>>,<<2,0>>,<<3,0>>,<<4,0>>,<<5,0>>,<<6,0>>,<<7,0>>,<<8,0>>,<<9,0>>,<<10,310>>,<<13,0>>,<<14,0>>,<<15,0>>,<<16,0>>,<<17,0>>,<<18,0>>,<<83,0>>,<<19,0>>,<<20,0>>>>,
     <<<<36,313>>,<<134,0>>,<<1,0>>,<<2,0>>,<<3,0>>,<<4,0>>,<<5,0>>,<<6,0>>,<<7,0>>,<<8,0>>,<<9,0>>,<<10,312>>,<<13,0>>,<<14,0>>,<<15,0>>,<<16,0>>,<<17,0>>,<<18,0>>,<<83,0>>,<<19,0>>,<<20,0>>>>,
     <<<<21,0>>,<<22,0>>,<<52,314>>,<<53,0>>,<<54,0>>,<<95,0>>,<<56,0>>,<<57,0>>,<<58,0>>,<<59,0>>,<<60,0>>,<<61,0>>,<<23,0>>,<<24,0>>,<<62,0>>,<<25,316>>,<<26,315>>,<<27,0>>,<<28,0>>,<<29,0>>,<<30,0>>,<<31,0>>,<<32,0>>,<<35,0>>,<<36,0>>,<<37,0>>,<<38,0>>,<<39,0>>,<<40,0>>,<<135,0>>>>,
     <<<<21,0>>,<<22,0>>,<<52,320>>,<<53,0>>,<<136,0>>,<<56,0>>,<<57,0>>,<<58,0>>,<<59,0>>,<<60,0>>,<<61,0>>,<<23,0>>,<<24,0>>,<<62,0>>,<<25,319>>,<<26,318>>,<<27,0>>,<<28,0>>,<<29,0>>,<<30,0>>,<<31,0>>,<<32,0>>,<<35,0>>,<<36,0>>,<<37,0>>,<<39,0>>,<<40,0>>,<<9,317>>,<<135,0>>>>,
     <<<<21,0>>,<<22,0>>,<<52,324>>,<<53,0>>,<<54,0>>,<<84,0>>,<<56,0>>,<<57,0>>,<<58,0>>,<<59,0>>,<<60,0>>,<<61,0>>,<<23,0>>,<<24,0>>,<<62,0>>,<<25,323>>,<<26,322>>,<<27,0>>,<<28,0>>,<<29,0>>,<<30,0>>,<<31,0>>,<<32,0>>,<<35,0>>,<<36,0>>,<<37,0>>,<<38,0>>,<<39,0>>,<<40,0>>,<<9,321>>>>,
     <<<<101,0>>,<<112,0>>,<<21,0>>,<<22,0>>,<<52,325>>,<<53,0>>,<<54,0>>,<<95,0>>,<<56,0>>,<<57,0>>,<<58,0>>,<<59,0>>,<<60,0>>,<<61,0>>,<<23,0>>,<<24,0>>,<<62,0>>,<<27,327>>,<<28,326>>,<<29,0>>,<<30,0>>,<<31,0>>,<<32,0>>,<<35,0>>,<<36,0>>,<<37,0>>,<<38,0>>,<<39,0>>,<<40,0>>,<<2,328>>>>,
     <<<<101,0>>,<<112,0>>,<<21,0>>,<<22,0>>,<<52,332>>,<<53,0>>,<<136,0>>,<<56,0>>,<<57,0>>,<<58,0>>,<<59,0>>,<<60,0>>,<<61,0>>,<<23,0>>,<<24,0>>,<<62,0>>,<<27,331>>,<<28,330>>,<<29,0>>,<<30,0>>,<<31,0>>,<<32,0>>,<<35,0>>,<<36,0>>,<<37,0>>,<<39,0>>,<<40,0>>,<<2,0>>,<<10,329>>>>,
     <<<<101,0>>,<<21,0>>,<<52,333>>,<<53,0>>,<<54,0>>,<<95,0>>,<<56,0>>,<<57,0>>,<<58,0>>,<<59,0>>,<<60,0>>,<<61,0>>,<<23,0>>,<<24,0>>,<<62,0>>,<<27,335>>,<<28,334>>,<<29,0>>,<<30,0>>,<<31,0>>,<<32,0>>,<<35,0>>,<<36,0>>,<<37,0>>,<<38,0>>,<<39,0>>,<<40,0>>,<<26,0>>>>,
     <<<<101,0>>,<<21,0>>,<<52,338>>,<<53,0>>,<<136,0>>,<<56,0>>,<<57,0>>,<<58,0>>,<<59,0>>,<<60,0>>,<<61,0>>,<<23,0>>,<<24,0>>,<<62,0>>,<<27,337>>,<<28,336>>,<<29,0>>,<<30,0>>,<<31,0>>,<<32,0>>,<<35,0>>,<<36,0>>,<<37,0>>,<<39,0>>,<<40,0>>,<<26,0>>,<<10,319>>>>,
     <<<<21,0>>,<<22,0>>,<<103,0>>,<<23,0>>,<<24,0>>,<<25,333>>,<<26,339>>,<<27,0>>,<<28,0>>,<<29,0>>,<<30,0>>,<<31,0>>,<<32,0>>,<<104,0>>,<<53,0>>,<<54,0>>,<<95,0>>,<<105,0>>,<<106,0>>,<<107,0>>,<<108,0>>,<<111,0>>,<<35,0>>,<<36,0>>,<<37,0>>,<<38,0>>,<<39,0>>,<<40,0>>>>,
     <<<<21,0>>,<<22,0>>,<<103,0>>,<<23,0>>,<<24,0>>,<<25,338>>,<<26,340>>,<<27,0>>,<<28,0>>,<<29,0>>,<<30,0>>,<<31,0>>,<<32,0>>,<<104,0>>,<<53,0>>,<<136,341>>,<<105,0>>,<<106,0>>,<<107,0>>,<<108,0>>,<<111,0>>,<<35,0>>,<<36,0>>,<<37,0>>,<<39,0>>,<<40,0>>,<<10,320>>>>,
     <<<<21,0>>,<<22,0>>,<<52,0>>,<<53,0>>,<<54,0>>,<<55,0>>,<<56,0>>,<<57,0>>,<<58,0>>,<<59,0>>,<<60,0>>,<<61,0>>,<<23,0>>,<<24,0>>,<<62,0>>,<<25,0>>,<<26,0>>,<<27,0>>,<<28,0>>,<<29,0>>,<<30,0>>,<<31,0>>,<<32,0>>,<<35,0>>,<<36,0>>,<<37,0>>,<<38,0>>,<<39,0>>,<<40,0>>,<<34,0>>>>,
     <<<<21,0>>,<<22,0>>,<<52,0>>,<<53,0>>,<<54,0>>,<<55,0>>,<<56,0>>,<<57,0>>,<<58,0>>,<<59,0>>,<<60,0>>,<<61,0>>,<<23,0>>,<<24,0>>,<<62,0>>,<<25,0>>,<<26,0>>,<<27,0>>,<<28,0>>,<<29,0>>,<<30,0>>,<<31,0>>,<<32,0>>,<<35,0>>,<<36,0>>,<<37,0>>,<<38,0>>,<<39,0>>,<<40,0>>>>,
     <<<<101,0>>,<<21,0>>,<<23,0>>,<<24,0>>,<<27,0>>,<<28,0>>,<<29,0>>,<<30,0>>,<<31,0>>,<<32,0>>,<<33,0>>,<<34,0>>,<<35,0>>,<<36,0>>,<<37,0>>,<<38,0>>,<<39,0>>,<<40,0>>,<<26,0>>>>,
     <<<<21,0>>,<<22,0>>,<<52,0>>,<<53,0>>,<<54,0>>,<<55,0>>,<<56,0>>,<<57,0>>,<<58,0>>,<<59,0>>,<<60,0>>,<<86,0>>,<<23,0>>,<<24,0>>,<<62,0>>,<<25,0>>,<<26,0>>,<<27,0>>,<<28,0>>,<<29,0>>,<<30,0>>,<<31,0>>,<<32,0>>,<<35,0>>,<<36,0>>,<<37,0>>,<<38,0>>,<<39,0>>,<<40,0>>,<<34,0>>>>,
     <<<<21,0>>,<<22,0>>,<<52,0>>,<<53,0>>,<<54,0>>,<<55,0>>,<<56,0>>,<<57,0>>,<<58,0>>,<<59,0>>,<<60,0>>,<<86,0>>,<<23,0>>,<<24,0>>,<<62,0>>,<<25,0>>,<<26,0>>,<<27,0>>,<<28,0>>,<<29,0>>,<<30,0>>,<<31,0>>,<<32,0>>,<<35,0>>,<<36,0>>,<<37,0>>,<<38,0>>,<<39,0>>,<<40,0>>,<<34,0>>>>,
     <<<<21,0>>,<<22,0>>,<<52,0>>,<<53,0>>,<<54,0>>,<<55,0>>,<<56,0>>,<<57,0>>,<<58,0>>,<<59,0>>,<<60,0>>,<<61,0>>,<<23,0>>,<<24,0>>,<<62,0>>,<<25,0>>,<<26,0>>,<<27,0>>,<<28,0>>,<<29,0>>,<<30,0>>,<<31,0>>,<<32,0>>,<<35,0>>,<<36,0>>,<<37,0>>,<<38,0>>,<<39,0>>,<<40,0>>,<<34,0>>>>,
     <<<<21,0>>,<<22,0>>,<<52,0>>,<<53,0>>,<<54,0>>,<<55,0>>,<<56,0>>,<<57,0>>,<<58,0>>,<<59,0>>,<<60,0>>,<<86,0>>,<<23,0>>,<<24,0>>,<<62,0>>,<<25,0>>,<<26,0>>,<<27,0>>,<<28,0>>,<<29,0>>,<<30,0>>,<<31,0>>,<<32,0>>,<<35,0>>,<<36,0>>,<<37,0>>,<<38,0>>,<<39,0>>,<<40,0>>>>,
     <<<<21,0>>,<<22,0>>,<<52,0>>,<<53,0>>,<<54,0>>,<<55,0>>,<<56,0>>,<<57,0>>,<<58,0>>,<<59,0>>,<<60,0>>,<<86,0>>,<<23,0>>,<<24,0>>,<<62,0>>,<<25,0>>,<<26,0>>,<<27,0>>,<<28,0>>,<<29,0>>,<<30,0>>,<<31,0>>,<<32,0>>,<<35,0>>,<<36,0>>,<<37,0>>,<<38,0>>,<<39,0>>,<<40,0>>,<<10,0>>>>,
     <<<<21,0>>,<<22,0>>,<<52,0>>,<<53,0>>,<<54,0>>,<<55,0>>,<<56,0>>,<<57,0>>,<<58,0>>,<<59,0>>,<<60,0>>,<<61,0>>,<<23,0>>,<<24,0>>,<<62,0>>,<<25,0>>,<<26,0>>,<<27,0>>,<<28,0>>,<<29,0>>,<<30,0>>,<<31,0>>,<<32,0>>,<<35,0>>,<<36,0>>,<<37,0>>,<<38,0>>,<<39,0>>,<<40,0>>,<<10,0>>>>,
     <<<<101,0>>,<<21,0>>,<<23,0>>,<<24,0>>,<<27,0>>,<<28,0>>,<<29,0>>,<<30,0>>,<<31,0>>,<<32,0>>,<<33,0>>,<<34,0>>,<<35,0>>,<<36,0>>,<<37,0>>,<<38,0>>,<<39,0>>,<<40,0>>,<<26,0>>>>,
     <<<<101,0>>,<<21,0>>,<<23,0>>,<<24,0>>,<<27,0>>,<<28,0>>,<<29,0>>,<<30,0>>,<<31,0>>,<<32,0>>,<<33,0>>,<<34,0>>,<<35,0>>,<<36,0>>,<<37,0>>,<<38,0>>,<<39,0>>,<<40,0>>,<<26,0>>>>,
     <<<<101,0>>,<<21,0>>,<<23,0>>,<<24,0>>,<<27,0>>,<<28,0>>,<<29,0>>,<<30,0>>,<<31,0>>,<<32,0>>,<<33,0>>,<<34,0>>,<<35,0>>,<<36,0>>,<<37,0>>,<<38,0>>,<<39,0>>,<<40,0>>,<<26,0>>>>,
     <<<<1,0>>,<<2,0>>,<<3,0>>,<<4,0>>,<<5,0>>,<<6,0>>,<<7,0>>,<<8,0>>,<<11,0>>,<<12,0>>,<<13,0>>,<<14,0>>,<<15,0>>,<<16,0>>,<<17,0>>,<<18,0>>,<<41,0>>,<<42,0>>,<<43,0>>,<<44,0>>,<<45,0>>,<<46,0>>,<<47,0>>,<<48,0>>,<<49,0>>,<<50,0>>,<<51,0>>,<<19,0>>,<<20,0>>>>,
     <<<<1,0>>,<<2,0>>,<<3,0>>,<<4,0>>,<<5,0>>,<<6,0>>,<<7,0>>,<<8,0>>,<<11,0>>,<<12,0>>,<<13,0>>,<<14,0>>,<<15,0>>,<<16,0>>,<<17,0>>,<<18,0>>,<<41,0>>,<<42,0>>,<<43,0>>,<<44,0>>,<<45,0>>,<<46,0>>,<<47,0>>,<<48,0>>,<<49,0>>,<<50,0>>,<<51,0>>,<<19,0>>,<<20,0>>>>,
     <<<<1,0>>,<<2,0>>,<<3,0>>,<<4,0>>,<<5,0>>,<<6,0>>,<<7,0>>,<<8,0>>,<<11,0>>,<<12,0>>,<<13,0>>,<<14,0>>,<<15,0>>,<<16,0>>,<<17,0>>,<<18,0>>,<<41,0>>,<<42,0>>,<<43,0>>,<<44,0>>,<<45,0>>,<<46,0>>,<<47,0>>,<<48,0>>,<<49,0>>,<<85,0>>,<<51,0>>,<<19,0>>,<<20,0>>>>,
     <<<<33,0>>,<<1,0>>,<<2,0>>,<<3,0>>,<<4,0>>,<<5,0>>,<<6,0>>,<<7,0>>,<<8,0>>,<<11,0>>,<<12,0>>,<<13,0>>,<<14,0>>,<<15,0>>,<<16,0>>,<<17,0>>,<<18,0>>,<<41,0>>,<<42,0>>,<<43,0>>,<<44,0>>,<<45,0>>,<<46,0>>,<<47,0>>,<<48,0>>,<<137,0>>,<<51,0>>,<<19,0>>,<<20,0>>>>,
     <<<<33,0>>,<<1,0>>,<<2,0>>,<<3,0>>,<<4,0>>,<<5,0>>,<<6,0>>,<<7,0>>,<<8,0>>,<<11,0>>,<<12,0>>,<<13,0>>,<<14,0>>,<<15,0>>,<<16,0>>,<<17,0>>,<<18,0>>,<<41,0>>,<<42,0>>,<<43,0>>,<<44,0>>,<<45,0>>,<<46,0>>,<<47,0>>,<<48,0>>,<<49,0>>,<<85,0>>,<<51,0>>,<<19,0>>,<<20,0>>>>,
     <<<<21,0>>,<<22,0>>,<<103,0>>,<<23,0>>,<<24,0>>,<<25,0>>,<<26,0>>,<<27,0>>,<<28,0>>,<<29,0>>,<<30,0>>,<<31,0>>,<<32,0>>,<<104,0>>,<<53,0>>,<<54,0>>,<<55,0>>,<<105,0>>,<<106,0>>,<<107,0>>,<<108,0>>,<<111,0>>,<<35,0>>,<<36,0>>,<<37,0>>,<<38,0>>,<<39,0>>,<<40,0>>>>,
     <<<<101,0>>,<<112,0>>,<<21,0>>,<<22,0>>,<<52,0>>,<<53,0>>,<<54,0>>,<<55,0>>,<<56,0>>,<<57,0>>,<<58,0>>,<<59,0>>,<<60,0>>,<<61,0>>,<<23,0>>,<<24,0>>,<<62,0>>,<<27,0>>,<<28,0>>,<<29,0>>,<<30,0>>,<<31,0>>,<<32,0>>,<<35,0>>,<<36,0>>,<<37,0>>,<<38,0>>,<<39,0>>,<<40,0>>>>,
     <<<<101,0>>,<<21,0>>,<<52,0>>,<<53,0>>,<<54,0>>,<<55,0>>,<<56,0>>,<<57,0>>,<<58,0>>,<<59,0>>,<<60,0>>,<<61,0>>,<<23,0>>,<<24,0>>,<<62,0>>,<<27,0>>,<<28,0>>,<<29,0>>,<<30,0>>,<<31,0>>,<<32,0>>,<<35,0>>,<<36,0>>,<<37,0>>,<<38,0>>,<<39,0>>,<<40,0>>,<<26,0>>>>,
     <<<<21,0>>,<<22,0>>,<<103,0>>,<<23,0>>,<<24,0>>,<<25,0>>,<<27,0>>,<<28,0>>,<<29,0>>,<<30,0>>,<<31,0>>,<<32,0>>,<<104,0>>,<<53,0>>,<<54,0>>,<<55,0>>,<<105,0>>,<<106,0>>,<<107,0>>,<<108,0>>,<<111,0>>,<<35,0>>,<<36,0>>,<<37,0>>,<<38,0>>,<<39,0>>,<<40,0>>>>,
     <<<<21,0>>,<<22,0>>,<<103,0>>,<<23,0>>,<<24,0>>,<<25,0>>,<<26,0>>,<<27,0>>,<<28,0>>,<<29,0>>,<<30,0>>,<<31,0>>,<<32,0>>,<<104,0>>,<<53,0>>,<<54,0>>,<<55,0>>,<<105,0>>,<<106,0>>,<<107,0>>,<<138,0>>,<<35,0>>,<<36,0>>,<<37,0>>,<<38,0>>,<<39,0>>,<<40,0>>>>,
     <<<<101,0>>,<<112,0>>,<<21,0>>,<<22,0>>,<<52,0>>,<<53,0>>,<<54,0>>,<<55,0>>,<<56,0>>,<<57,0>>,<<58,0>>,<<59,0>>,<<60,0>>,<<61,0>>,<<23,0>>,<<24,0>>,<<62,0>>,<<27,0>>,<<28,0>>,<<29,0>>,<<30,0>>,<<31,0>>,<<32,0>>,<<35,0>>,<<36,0>>,<<37,0>>,<<38,0>>,<<39,0>>,<<40,0>>>>,
     <<<<101,0>>,<<112,0>>,<<21,0>>,<<22,0>>,<<52,0>>,<<53,0>>,<<54,0>>,<<55,0>>,<<56,0>>,<<57,0>>,<<58,0>>,<<59,0>>,<<139,0>>,<<23,0>>,<<24,0>>,<<62,0>>,<<27,0>>,<<28,0>>,<<29,0>>,<<30,0>>,<<31,0>>,<<32,0>>,<<35,0>>,<<36,0>>,<<37,0>>,<<38,0>>,<<39,0>>,<<40,0>>,<<140,0>>>>,
     <<<<101,0>>,<<21,0>>,<<52,0>>,<<53,0>>,<<54,0>>,<<55,0>>,<<56,0>>,<<57,0>>,<<58,0>>,<<59,0>>,<<60,0>>,<<61,0>>,<<23,0>>,<<24,0>>,<<62,0>>,<<27,0>>,<<28,0>>,<<29,0>>,<<30,0>>,<<31,0>>,<<32,0>>,<<35,0>>,<<36,0>>,<<37,0>>,<<38,0>>,<<39,0>>,<<40,0>>>>,
     <<<<101,0>>,<<21,0>>,<<52,0>>,<<53,0>>,<<54,0>>,<<55,0>>,<<56,0>>,<<57,0>>,<<58,0>>,<<59,0>>,<<139,0>>,<<23,0>>,<<24,0>>,<<62,0>>,<<27,0>>,<<28,0>>,<<29,0>>,<<30,0>>,<<31,0>>,<<32,0>>,<<35,0>>,<<36,0>>,<<37,0>>,<<38,0>>,<<39,0>>,<<40,0>>,<<26,0>>>>,
     <<<<2,0>>,<<63,0>>,<<64,0>>,<<65,0>>,<<66,0>>,<<67,0>>,<<3,0>>,<<4,0>>,<<5,0>>,<<6,0>>,<<7,0>>,<<8,0>>,<<13,0>>,<<14,0>>,<<15,0>>,<<16,0>>,<<100,0>>,<<18,0>>,<<41,0>>,<<45,0>>,<<46,0>>,<<47,0>>,<<48,0>>,<<49,0>>,<<85,0>>,<<68,0>>>>,
     <<<<2,0>>,<<63,0>>,<<64,0>>,<<65,0>>,<<66,0>>,<<67,0>>,<<3,0>>,<<4,0>>,<<5,0>>,<<6,0>>,<<7,0>>,<<8,0>>,<<13,0>>,<<14,0>>,<<15,0>>,<<16,0>>,<<100,0>>,<<18,0>>,<<41,0>>,<<45,0>>,<<46,0>>,<<47,0>>,<<48,0>>,<<49,0>>,<<50,0>>,<<68,0>>>>,
     <<<<63,0>>,<<64,0>>,<<65,0>>,<<66,0>>,<<67,0>>,<<3,0>>,<<4,0>>,<<141,0>>,<<5,0>>,<<6,0>>,<<7,0>>,<<8,0>>,<<13,0>>,<<14,0>>,<<15,0>>,<<16,0>>,<<100,0>>,<<142,0>>,<<143,0>>,<<18,0>>,<<41,0>>,<<45,0>>,<<46,0>>,<<47,0>>,<<48,0>>,<<49,0>>,<<50,0>>,<<68,0>>>>,
     <<<<21,0>>,<<114,0>>,<<115,0>>,<<116,0>>,<<117,0>>,<<19,0>>,<<118,0>>,<<119,0>>,<<1,0>>,<<2,0>>,<<3,0>>,<<4,0>>,<<5,0>>,<<6,0>>,<<7,0>>,<<8,0>>,<<11,0>>,<<12,0>>,<<13,0>>,<<14,0>>,<<15,0>>,<<16,0>>,<<17,0>>,<<18,0>>,<<41,0>>,<<42,0>>,<<43,0>>,<<44,0>>,<<45,0>>,<<46,0>>,<<47,0>>,<<48,0>>,<<49,0>>,<<85,0>>,<<68,0>>>>,
     <<<<21,0>>,<<114,0>>,<<115,0>>,<<116,0>>,<<117,0>>,<<19,0>>,<<118,0>>,<<119,0>>,<<1,0>>,<<2,0>>,<<3,0>>,<<4,0>>,<<5,0>>,<<6,0>>,<<7,0>>,<<8,0>>,<<11,0>>,<<12,0>>,<<13,0>>,<<14,0>>,<<15,0>>,<<16,0>>,<<17,0>>,<<18,0>>,<<41,0>>,<<42,0>>,<<43,0>>,<<44,0>>,<<45,0>>,<<46,0>>,<<47,0>>,<<48,0>>,<<49,0>>,<<50,0>>,<<68,0>>>>,
     <<<<1,0>>,<<2,0>>,<<3,0>>,<<4,0>>,<<5,0>>,<<6,0>>,<<7,0>>,<<8,0>>,<<11,0>>,<<12,0>>,<<13,0>>,<<14,0>>,<<15,0>>,<<16,0>>,<<17,0>>,<<18,0>>,<<41,0>>,<<42,0>>,<<43,0>>,<<44,0>>,<<45,0>>,<<46,0>>,<<47,0>>,<<48,0>>,<<49,0>>,<<50,0>>,<<68,0>>>>,
     <<<<26,0>>,<<63,0>>,<<64,0>>,<<65,0>>,<<66,0>>,<<67,0>>,<<3,0>>,<<4,0>>,<<5,0>>,<<6,0>>,<<7,0>>,<<8,0>>,<<13,0>>,<<14,0>>,<<15,0>>,<<16,0>>,<<100,0>>,<<102,0>>,<<17,0>>,<<18,0>>,<<41,0>>,<<45,0>>,<<46,0>>,<<47,0>>,<<48,0>>,<<49,0>>,<<85,0>>,<<68,0>>>>,
     <<<<63,0>>,<<64,0>>,<<65,0>>,<<66,0>>,<<67,0>>,<<3,0>>,<<4,0>>,<<5,0>>,<<6,0>>,<<7,0>>,<<8,0>>,<<13,0>>,<<14,0>>,<<15,0>>,<<16,0>>,<<100,0>>,<<102,0>>,<<17,0>>,<<18,0>>,<<41,0>>,<<45,0>>,<<46,0>>,<<47,0>>,<<48,0>>,<<49,0>>,<<50,0>>,<<68,0>>>>,
     <<<<2,0>>,<<63,0>>,<<64,0>>,<<65,0>>,<<66,0>>,<<67,0>>,<<3,0>>,<<4,0>>,<<5,0>>,<<6,0>>,<<7,0>>,<<8,0>>,<<13,0>>,<<14,0>>,<<15,0>>,<<16,0>>,<<100,0>>,<<18,0>>,<<41,0>>,<<45,0>>,<<46,0>>,<<47,0>>,<<48,0>>,<<49,0>>,<<50,0>>,<<68,0>>>>,
     <<<<2,0>>,<<63,0>>,<<64,0>>,<<65,0>>,<<66,0>>,<<67,0>>,<<3,0>>,<<4,0>>,<<5,0>>,<<6,0>>,<<7,0>>,<<8,0>>,<<13,0>>,<<14,0>>,<<15,0>>,<<16,0>>,<<100,0>>,<<18,0>>,<<41,0>>,<<45,0>>,<<46,0>>,<<47,0>>,<<48,0>>,<<137,0>>,<<68,0>>>>,
     <<<<2,0>>,<<63,0>>,<<64,0>>,<<65,0>>,<<66,0>>,<<67,0>>,<<3,0>>,<<4,0>>,<<5,0>>,<<6,0>>,<<7,0>>,<<8,0>>,<<13,0>>,<<14,0>>,<<15,0>>,<<16,0>>,<<100,0>>,<<18,0>>,<<41,0>>,<<45,0>>,<<46,0>>,<<47,0>>,<<48,0>>,<<49,0>>,<<50,0>>,<<68,0>>>>,
     <<<<63,0>>,<<64,0>>,<<65,0>>,<<66,0>>,<<67,0>>,<<3,0>>,<<4,0>>,<<5,0>>,<<6,0>>,<<7,0>>,<<8,0>>,<<13,0>>,<<14,0>>,<<15,0>>,<<16,0>>,<<100,0>>,<<18,0>>,<<41,0>>,<<45,0>>,<<46,0>>,<<47,0>>,<<48,0>>,<<49,0>>,<<50,0>>,<<68,0>>>>,
     <<<<21,0>>,<<114,0>>,<<115,0>>,<<116,0>>,<<117,0>>,<<19,0>>,<<118,0>>,<<119,0>>,<<1,0>>,<<2,0>>,<<3,0>>,<<4,0>>,<<5,0>>,<<6,0>>,<<7,0>>,<<8,0>>,<<11,0>>,<<12,0>>,<<13,0>>,<<14,0>>,<<15,0>>,<<16,0>>,<<17,0>>,<<18,0>>,<<41,0>>,<<42,0>>,<<43,0>>,<<44,0>>,<<45,0>>,<<46,0>>,<<47,0>>,<<48,0>>,<<49,0>>,<<50,0>>,<<68,0>>>>,
     <<<<21,0>>,<<114,0>>,<<115,0>>,<<116,0>>,<<117,0>>,<<19,0>>,<<118,0>>,<<119,0>>,<<1,0>>,<<2,0>>,<<3,0>>,<<4,0>>,<<5,0>>,<<6,0>>,<<7,0>>,<<8,0>>,<<11,0>>,<<12,0>>,<<13,0>>,<<14,0>>,<<15,0>>,<<16,0>>,<<17,0>>,<<18,0>>,<<41,0>>,<<42,0>>,<<43,0>>,<<44,0>>,<<45,0>>,<<46,0>>,<<47,0>>,<<48,0>>,<<137,0>>,<<68,0>>>>,
     <<<<21,0>>,<<114,0>>,<<115,0>>,<<116,0>>,<<117,0>>,<<19,0>>,<<118,0>>,<<119,0>>,<<1,0>>,<<2,0>>,<<3,0>>,<<4,0>>,<<5,0>>,<<6,0>>,<<7,0>>,<<8,0>>,<<11,0>>,<<12,0>>,<<13,0>>,<<14,0>>,<<15,0>>,<<16,0>>,<<17,0>>,<<18,0>>,<<41,0>>,<<42,0>>,<<43,0>>,<<44,0>>,<<45,0>>,<<46,0>>,<<47,0>>,<<48,0>>,<<49,0>>,<<50,0>>,<<68,0>>>>,
     <<<<21,0>>,<<114,0>>,<<115,0>>,<<116,0>>,<<117,0>>,<<19,0>>,<<118,0>>,<<119,0>>,<<1,0>>,<<3,0>>,<<4,0>>,<<5,0>>,<<6,0>>,<<7,0>>,<<8,0>>,<<11,0>>,<<12,0>>,<<13,0>>,<<14,0>>,<<15,0>>,<<16,0>>,<<17,0>>,<<18,0>>,<<41,0>>,<<42,0>>,<<43,0>>,<<44,0>>,<<45,0>>,<<46,0>>,<<47,0>>,<<48,0>>,<<49,0>>,<<50,0>>,<<68,0>>>>,
     <<<<63,0>>,<<64,0>>,<<65,0>>,<<66,0>>,<<67,0>>,<<3,0>>,<<4,0>>,<<5,0>>,<<6,0>>,<<7,0>>,<<8,0>>,<<13,0>>,<<14,0>>,<<15,0>>,<<16,0>>,<<100,0>>,<<102,0>>,<<17,0>>,<<18,0>>,<<41,0>>,<<45,0>>,<<46,0>>,<<47,0>>,<<48,0>>,<<49,0>>,<<50,0>>,<<68,0>>>>,
     <<<<123,0>>,<<63,0>>,<<64,0>>,<<65,0>>,<<66,0>>,<<67,0>>,<<3,0>>,<<4,0>>,<<5,0>>,<<6,0>>,<<7,0>>,<<8,0>>,<<13,0>>,<<14,0>>,<<15,0>>,<<16,0>>,<<100,0>>,<<102,0>>,<<17,0>>,<<18,0>>,<<41,0>>,<<45,0>>,<<46,0>>,<<47,0>>,<<48,0>>,<<137,0>>,<<68,0>>>>,
     <<<<63,0>>,<<64,0>>,<<65,0>>,<<66,0>>,<<67,0>>,<<3,0>>,<<4,0>>,<<5,0>>,<<6,0>>,<<7,0>>,<<8,0>>,<<13,0>>,<<14,0>>,<<15,0>>,<<16,0>>,<<100,0>>,<<102,0>>,<<17,0>>,<<18,0>>,<<41,0>>,<<45,0>>,<<46,0>>,<<47,0>>,<<48,0>>,<<49,0>>,<<50,0>>,<<68,0>>>>,
     <<<<2,0>>,<<63,0>>,<<64,0>>,<<65,0>>,<<66,0>>,<<67,0>>,<<3,0>>,<<4,0>>,<<5,0>>,<<6,0>>,<<7,0>>,<<8,0>>,<<13,0>>,<<14,0>>,<<15,0>>,<<16,0>>,<<100,0>>,<<18,0>>,<<41,0>>,<<45,0>>,<<46,0>>,<<47,0>>,<<48,0>>,<<137,0>>,<<68,0>>>>,
     <<<<2,0>>,<<63,0>>,<<64,0>>,<<65,0>>,<<66,0>>,<<67,0>>,<<3,0>>,<<4,0>>,<<5,0>>,<<6,0>>,<<7,0>>,<<8,0>>,<<13,0>>,<<14,0>>,<<15,0>>,<<16,0>>,<<100,0>>,<<18,0>>,<<41,0>>,<<45,0>>,<<46,0>>,<<47,0>>,<<48,0>>,<<49,0>>,<<85,0>>,<<68,0>>>>,
     <<<<21,0>>,<<114,0>>,<<115,0>>,<<116,0>>,<<117,0>>,<<19,0>>,<<118,0>>,<<119,0>>,<<1,0>>,<<2,0>>,<<3,0>>,<<4,0>>,<<5,0>>,<<6,0>>,<<7,0>>,<<8,0>>,<<11,0>>,<<12,0>>,<<13,0>>,<<14,0>>,<<15,0>>,<<16,0>>,<<17,0>>,<<18,0>>,<<41,0>>,<<42,0>>,<<43,0>>,<<44,0>>,<<45,0>>,<<46,0>>,<<47,0>>,<<48,0>>,<<137,0>>,<<68,0>>>>,
     <<<<21,0>>,<<114,0>>,<<115,0>>,<<116,0>>,<<117,0>>,<<19,0>>,<<118,0>>,<<119,0>>,<<1,0>>,<<2,0>>,<<3,0>>,<<4,0>>,<<5,0>>,<<6,0>>,<<7,0>>,<<8,0>>,<<11,0>>,<<12,0>>,<<13,0>>,<<14,0>>,<<15,0>>,<<16,0>>,<<17,0>>,<<18,0>>,<<41,0>>,<<42,0>>,<<43,0>>,<<44,0>>,<<45,0>>,<<46,0>>,<<47,0>>,<<48,0>>,<<49,0>>,<<85,0>>,<<68,0>>>>,
     <<<<26,0>>,<<123,0>>,<<63,0>>,<<64,0>>,<<65,0>>,<<66,0>>,<<67,0>>,<<3,0>>,<<4,0>>,<<5,0>>,<<6,0>>,<<7,0>>,<<8,0>>,<<13,0>>,<<14,0>>,<<15,0>>,<<16,0>>,<<100,0>>,<<102,0>>,<<17,0>>,<<18,0>>,<<41,0>>,<<45,0>>,<<46,0>>,<<47,0>>,<<48,0>>,<<137,0>>,<<68,0>>>>,
     <<<<26,0>>,<<63,0>>,<<64,0>>,<<65,0>>,<<66,0>>,<<67,0>>,<<3,0>>,<<4,0>>,<<5,0>>,<<6,0>>,<<7,0>>,<<8,0>>,<<13,0>>,<<14,0>>,<<15,0>>,<<16,0>>,<<100,0>>,<<102,0>>,<<17,0>>,<<18,0>>,<<41,0>>,<<45,0>>,<<46,0>>,<<47,0>>,<<48,0>>,<<49,0>>,<<85,0>>,<<68,0>>>>,
     <<<<69,0>>,<<103,0>>,<<23,0>>,<<24,0>>,<<25,0>>,<<26,0>>,<<27,0>>,<<28,0>>,<<31,0>>,<<32,0>>,<<104,0>>,<<53,0>>,<<54,0>>,<<55,0>>,<<105,0>>,<<106,0>>,<<107,0>>,<<108,0>>,<<111,0>>,<<35,0>>,<<36,0>>,<<37,0>>,<<38,0>>,<<39,0>>,<<40,0>>,<<71,0>>,<<121,0>>,<<63,0>>,<<73,0>>,<<74,0>>>>,
     <<<<69,0>>,<<101,0>>,<<112,0>>,<<52,0>>,<<53,0>>,<<54,0>>,<<55,0>>,<<56,0>>,<<57,0>>,<<58,0>>,<<59,0>>,<<60,0>>,<<61,0>>,<<23,0>>,<<24,0>>,<<70,0>>,<<27,0>>,<<28,0>>,<<31,0>>,<<32,0>>,<<35,0>>,<<36,0>>,<<37,0>>,<<38,0>>,<<39,0>>,<<40,0>>,<<122,0>>,<<71,0>>,<<72,0>>,<<63,0>>,<<73,0>>>>,
     <<<<69,0>>,<<101,0>>,<<52,0>>,<<53,0>>,<<54,0>>,<<55,0>>,<<56,0>>,<<57,0>>,<<58,0>>,<<59,0>>,<<60,0>>,<<61,0>>,<<23,0>>,<<24,0>>,<<70,0>>,<<27,0>>,<<28,0>>,<<31,0>>,<<32,0>>,<<35,0>>,<<36,0>>,<<37,0>>,<<38,0>>,<<39,0>>,<<40,0>>,<<26,0>>,<<122,0>>,<<71,0>>,<<72,0>>,<<63,0>>,<<73,0>>,<<74,0>>>>,
     <<<<69,0>>,<<103,0>>,<<23,0>>,<<24,0>>,<<25,0>>,<<26,0>>,<<27,0>>,<<28,0>>,<<31,0>>,<<32,0>>,<<104,0>>,<<53,0>>,<<54,0>>,<<55,0>>,<<105,0>>,<<110,0>>,<<106,0>>,<<107,0>>,<<108,0>>,<<109,0>>,<<35,0>>,<<36,0>>,<<37,0>>,<<38,0>>,<<39,0>>,<<40,0>>,<<71,0>>,<<121,0>>,<<64,0>>,<<63,0>>,<<73,0>>,<<74,0>>>>,
     <<<<69,0>>,<<144,0>>,<<145,0>>,<<103,0>>,<<23,0>>,<<24,0>>,<<25,0>>,<<26,0>>,<<27,0>>,<<28,0>>,<<104,0>>,<<53,0>>,<<54,0>>,<<55,0>>,<<105,0>>,<<146,0>>,<<147,0>>,<<106,0>>,<<107,0>>,<<108,0>>,<<111,0>>,<<148,0>>,<<35,0>>,<<36,0>>,<<37,0>>,<<38,0>>,<<39,0>>,<<40,0>>,<<71,0>>,<<121,0>>,<<149,0>>,<<63,0>>,<<73,0>>,<<74,0>>>>,
     <<<<69,0>>,<<103,0>>,<<23,0>>,<<24,0>>,<<25,0>>,<<26,0>>,<<27,0>>,<<28,0>>,<<31,0>>,<<32,0>>,<<104,0>>,<<53,0>>,<<54,0>>,<<55,0>>,<<105,0>>,<<110,0>>,<<106,0>>,<<107,0>>,<<108,0>>,<<111,0>>,<<35,0>>,<<36,0>>,<<37,0>>,<<38,0>>,<<39,0>>,<<40,0>>,<<71,0>>,<<121,0>>,<<64,0>>,<<63,0>>,<<73,0>>,<<74,0>>>>,
     <<<<69,0>>,<<101,0>>,<<112,0>>,<<52,0>>,<<53,0>>,<<54,0>>,<<55,0>>,<<56,0>>,<<57,0>>,<<58,0>>,<<59,0>>,<<60,0>>,<<86,0>>,<<23,0>>,<<24,0>>,<<70,0>>,<<27,0>>,<<28,0>>,<<31,0>>,<<32,0>>,<<35,0>>,<<36,0>>,<<37,0>>,<<38,0>>,<<39,0>>,<<40,0>>,<<122,0>>,<<71,0>>,<<72,0>>,<<64,0>>,<<63,0>>,<<73,0>>,<<2,0>>>>,
     <<<<69,0>>,<<101,0>>,<<112,0>>,<<144,0>>,<<52,0>>,<<53,0>>,<<54,0>>,<<55,0>>,<<148,0>>,<<56,0>>,<<145,0>>,<<57,0>>,<<58,0>>,<<59,0>>,<<60,0>>,<<61,0>>,<<23,0>>,<<24,0>>,<<70,0>>,<<27,0>>,<<28,0>>,<<35,0>>,<<36,0>>,<<37,0>>,<<38,0>>,<<39,0>>,<<40,0>>,<<122,0>>,<<71,0>>,<<72,0>>,<<149,0>>,<<63,0>>,<<73,0>>,<<2,0>>>>,
     <<<<69,0>>,<<101,0>>,<<112,0>>,<<52,0>>,<<53,0>>,<<54,0>>,<<55,0>>,<<56,0>>,<<57,0>>,<<58,0>>,<<59,0>>,<<60,0>>,<<61,0>>,<<23,0>>,<<24,0>>,<<70,0>>,<<27,0>>,<<28,0>>,<<31,0>>,<<32,0>>,<<35,0>>,<<36,0>>,<<37,0>>,<<38,0>>,<<39,0>>,<<40,0>>,<<122,0>>,<<71,0>>,<<72,0>>,<<64,0>>,<<63,0>>,<<73,0>>>>,
     <<<<69,0>>,<<101,0>>,<<52,0>>,<<53,0>>,<<54,0>>,<<55,0>>,<<56,0>>,<<57,0>>,<<58,0>>,<<59,0>>,<<60,0>>,<<86,0>>,<<23,0>>,<<24,0>>,<<70,0>>,<<27,0>>,<<28,0>>,<<31,0>>,<<32,0>>,<<35,0>>,<<36,0>>,<<37,0>>,<<38,0>>,<<39,0>>,<<40,0>>,<<26,0>>,<<122,0>>,<<71,0>>,<<72,0>>,<<64,0>>,<<63,0>>,<<73,0>>,<<74,0>>>>,
     <<<<69,0>>,<<101,0>>,<<144,0>>,<<52,0>>,<<53,0>>,<<54,0>>,<<55,0>>,<<148,0>>,<<56,0>>,<<145,0>>,<<57,0>>,<<58,0>>,<<59,0>>,<<60,0>>,<<61,0>>,<<23,0>>,<<24,0>>,<<70,0>>,<<27,0>>,<<28,0>>,<<35,0>>,<<36,0>>,<<37,0>>,<<38,0>>,<<39,0>>,<<40,0>>,<<26,0>>,<<122,0>>,<<71,0>>,<<72,0>>,<<149,0>>,<<63,0>>,<<73,0>>,<<74,0>>>>,
     <<<<69,0>>,<<101,0>>,<<52,0>>,<<53,0>>,<<54,0>>,<<55,0>>,<<56,0>>,<<57,0>>,<<58,0>>,<<59,0>>,<<60,0>>,<<61,0>>,<<23,0>>,<<24,0>>,<<70,0>>,<<27,0>>,<<28,0>>,<<31,0>>,<<32,0>>,<<35,0>>,<<36,0>>,<<37,0>>,<<38,0>>,<<39,0>>,<<40,0>>,<<26,0>>,<<122,0>>,<<71,0>>,<<72,0>>,<<64,0>>,<<63,0>>,<<73,0>>,<<74,0>>>>,
     <<<<69,0>>,<<103,0>>,<<23,0>>,<<24,0>>,<<25,0>>,<<27,0>>,<<28,0>>,<<31,0>>,<<32,0>>,<<104,0>>,<<53,0>>,<<54,0>>,<<55,0>>,<<105,0>>,<<106,0>>,<<107,0>>,<<108,0>>,<<111,0>>,<<35,0>>,<<36,0>>,<<37,0>>,<<38,0>>,<<39,0>>,<<40,0>>,<<71,0>>,<<121,0>>,<<63,0>>,<<73,0>>,<<150,0>>>>,
     <<<<69,0>>,<<103,0>>,<<23,0>>,<<24,0>>,<<25,0>>,<<26,0>>,<<27,0>>,<<28,0>>,<<31,0>>,<<32,0>>,<<104,0>>,<<53,0>>,<<54,0>>,<<55,0>>,<<105,0>>,<<106,0>>,<<107,0>>,<<138,0>>,<<35,0>>,<<36,0>>,<<37,0>>,<<38,0>>,<<39,0>>,<<40,0>>,<<71,0>>,<<121,0>>,<<63,0>>,<<151,0>>,<<74,0>>>>,
     <<<<69,0>>,<<101,0>>,<<112,0>>,<<52,0>>,<<53,0>>,<<54,0>>,<<55,0>>,<<56,0>>,<<57,0>>,<<58,0>>,<<59,0>>,<<60,0>>,<<61,0>>,<<23,0>>,<<24,0>>,<<70,0>>,<<27,0>>,<<28,0>>,<<31,0>>,<<32,0>>,<<35,0>>,<<36,0>>,<<37,0>>,<<38,0>>,<<39,0>>,<<40,0>>,<<122,0>>,<<71,0>>,<<72,0>>,<<63,0>>,<<73,0>>>>,
     <<<<69,0>>,<<101,0>>,<<112,0>>,<<52,0>>,<<53,0>>,<<54,0>>,<<55,0>>,<<56,0>>,<<57,0>>,<<58,0>>,<<59,0>>,<<60,0>>,<<61,0>>,<<23,0>>,<<24,0>>,<<70,0>>,<<27,0>>,<<28,0>>,<<31,0>>,<<32,0>>,<<35,0>>,<<36,0>>,<<37,0>>,<<38,0>>,<<39,0>>,<<40,0>>,<<122,0>>,<<71,0>>,<<72,0>>,<<64,0>>,<<63,0>>,<<73,0>>>>,
     <<<<69,0>>,<<101,0>>,<<112,0>>,<<52,0>>,<<53,0>>,<<54,0>>,<<55,0>>,<<56,0>>,<<57,0>>,<<58,0>>,<<59,0>>,<<139,0>>,<<23,0>>,<<24,0>>,<<70,0>>,<<27,0>>,<<28,0>>,<<31,0>>,<<32,0>>,<<35,0>>,<<36,0>>,<<37,0>>,<<38,0>>,<<39,0>>,<<40,0>>,<<122,0>>,<<71,0>>,<<72,0>>,<<63,0>>,<<151,0>>,<<140,0>>>>,
     <<<<69,0>>,<<101,0>>,<<52,0>>,<<53,0>>,<<54,0>>,<<55,0>>,<<56,0>>,<<57,0>>,<<58,0>>,<<59,0>>,<<60,0>>,<<61,0>>,<<23,0>>,<<24,0>>,<<70,0>>,<<27,0>>,<<28,0>>,<<31,0>>,<<32,0>>,<<35,0>>,<<36,0>>,<<37,0>>,<<38,0>>,<<39,0>>,<<40,0>>,<<122,0>>,<<71,0>>,<<72,0>>,<<63,0>>,<<73,0>>,<<150,0>>>>,
     <<<<69,0>>,<<101,0>>,<<52,0>>,<<53,0>>,<<54,0>>,<<55,0>>,<<56,0>>,<<57,0>>,<<58,0>>,<<59,0>>,<<139,0>>,<<23,0>>,<<24,0>>,<<70,0>>,<<27,0>>,<<28,0>>,<<31,0>>,<<32,0>>,<<35,0>>,<<36,0>>,<<37,0>>,<<38,0>>,<<39,0>>,<<40,0>>,<<26,0>>,<<122,0>>,<<71,0>>,<<72,0>>,<<63,0>>,<<151,0>>,<<74,0>>>>,
     <<<<124,0>>,<<77,0>>,<<125,0>>,<<126,0>>,<<99,0>>,<<75,0>>,<<48,0>>,<<79,0>>,<<63,0>>,<<64,0>>,<<65,0>>,<<66,0>>,<<67,0>>,<<1,0>>,<<2,0>>,<<3,0>>,<<4,0>>,<<5,0>>,<<6,0>>,<<7,0>>,<<8,0>>,<<13,0>>,<<14,0>>,<<15,0>>,<<16,0>>,<<17,0>>,<<18,0>>,<<41,0>>,<<45,0>>,<<80,0>>,<<68,0>>,<<81,0>>,<<82,0>>>>,
     <<<<124,0>>,<<77,0>>,<<125,0>>,<<126,0>>,<<99,0>>,<<75,0>>,<<48,0>>,<<79,0>>,<<63,0>>,<<64,0>>,<<65,0>>,<<66,0>>,<<67,0>>,<<1,0>>,<<2,0>>,<<3,0>>,<<4,0>>,<<5,0>>,<<6,0>>,<<7,0>>,<<8,0>>,<<13,0>>,<<14,0>>,<<15,0>>,<<16,0>>,<<17,0>>,<<18,0>>,<<41,0>>,<<45,0>>,<<80,0>>,<<68,0>>,<<81,0>>,<<82,0>>>>,
     <<<<63,0>>,<<64,0>>,<<65,0>>,<<66,0>>,<<67,0>>,<<1,0>>,<<2,0>>,<<3,0>>,<<4,0>>,<<5,0>>,<<6,0>>,<<7,0>>,<<8,0>>,<<13,0>>,<<14,0>>,<<15,0>>,<<16,0>>,<<17,0>>,<<18,0>>,<<41,0>>,<<45,0>>,<<80,0>>,<<68,0>>,<<81,0>>,<<82,0>>>>,
     <<<<85,0>>,<<127,0>>,<<48,0>>,<<47,0>>,<<46,0>>,<<78,0>>,<<128,0>>,<<63,0>>,<<64,0>>,<<65,0>>,<<66,0>>,<<67,0>>,<<1,0>>,<<2,0>>,<<3,0>>,<<4,0>>,<<5,0>>,<<6,0>>,<<7,0>>,<<8,0>>,<<13,0>>,<<14,0>>,<<15,0>>,<<16,0>>,<<17,0>>,<<18,0>>,<<41,0>>,<<45,0>>,<<80,0>>,<<68,0>>,<<81,0>>,<<82,0>>>>,
     <<<<50,0>>,<<127,0>>,<<48,0>>,<<47,0>>,<<46,0>>,<<78,0>>,<<128,0>>,<<63,0>>,<<64,0>>,<<65,0>>,<<66,0>>,<<67,0>>,<<1,0>>,<<2,0>>,<<3,0>>,<<4,0>>,<<5,0>>,<<6,0>>,<<7,0>>,<<8,0>>,<<13,0>>,<<14,0>>,<<15,0>>,<<16,0>>,<<17,0>>,<<18,0>>,<<41,0>>,<<45,0>>,<<80,0>>,<<68,0>>,<<81,0>>,<<82,0>>>>,
     <<<<49,0>>,<<85,0>>,<<75,0>>,<<76,0>>,<<77,0>>,<<47,0>>,<<46,0>>,<<79,0>>,<<63,0>>,<<64,0>>,<<65,0>>,<<66,0>>,<<129,0>>,<<1,0>>,<<2,0>>,<<3,0>>,<<4,0>>,<<5,0>>,<<7,0>>,<<8,0>>,<<13,0>>,<<14,0>>,<<15,0>>,<<16,0>>,<<17,0>>,<<18,0>>,<<41,0>>,<<130,0>>,<<131,0>>,<<132,0>>>>,
     <<<<49,0>>,<<50,0>>,<<75,0>>,<<76,0>>,<<77,0>>,<<47,0>>,<<46,0>>,<<79,0>>,<<63,0>>,<<64,0>>,<<65,0>>,<<66,0>>,<<129,0>>,<<1,0>>,<<2,0>>,<<3,0>>,<<4,0>>,<<5,0>>,<<7,0>>,<<8,0>>,<<13,0>>,<<14,0>>,<<15,0>>,<<16,0>>,<<17,0>>,<<18,0>>,<<41,0>>,<<130,0>>,<<131,0>>,<<132,0>>>>,
     <<<<49,0>>,<<85,0>>,<<75,0>>,<<76,0>>,<<77,0>>,<<47,0>>,<<46,0>>,<<78,0>>,<<79,0>>,<<133,0>>,<<2,0>>,<<63,0>>,<<64,0>>,<<65,0>>,<<66,0>>,<<67,0>>,<<3,0>>,<<4,0>>,<<5,0>>,<<7,0>>,<<8,0>>,<<13,0>>,<<14,0>>,<<15,0>>,<<16,0>>,<<100,0>>,<<18,0>>,<<41,0>>,<<45,0>>,<<80,0>>,<<68,0>>,<<81,0>>,<<82,0>>>>,
     <<<<49,0>>,<<50,0>>,<<75,0>>,<<76,0>>,<<77,0>>,<<47,0>>,<<46,0>>,<<78,0>>,<<79,0>>,<<133,0>>,<<2,0>>,<<63,0>>,<<64,0>>,<<65,0>>,<<66,0>>,<<67,0>>,<<3,0>>,<<4,0>>,<<5,0>>,<<7,0>>,<<8,0>>,<<13,0>>,<<14,0>>,<<15,0>>,<<16,0>>,<<100,0>>,<<18,0>>,<<41,0>>,<<45,0>>,<<80,0>>,<<68,0>>,<<81,0>>,<<82,0>>>>,
     <<<<49,0>>,<<50,0>>,<<75,0>>,<<76,0>>,<<77,0>>,<<47,0>>,<<46,0>>,<<78,0>>,<<79,0>>,<<133,0>>,<<63,0>>,<<64,0>>,<<65,0>>,<<66,0>>,<<67,0>>,<<3,0>>,<<4,0>>,<<141,0>>,<<5,0>>,<<7,0>>,<<8,0>>,<<13,0>>,<<14,0>>,<<15,0>>,<<16,0>>,<<100,0>>,<<142,0>>,<<143,0>>,<<18,0>>,<<41,0>>,<<45,0>>,<<80,0>>,<<68,0>>,<<81,0>>,<<82,0>>>>,
     <<<<26,0>>,<<49,0>>,<<85,0>>,<<75,0>>,<<76,0>>,<<77,0>>,<<47,0>>,<<46,0>>,<<78,0>>,<<79,0>>,<<133,0>>,<<63,0>>,<<64,0>>,<<65,0>>,<<66,0>>,<<67,0>>,<<3,0>>,<<4,0>>,<<5,0>>,<<7,0>>,<<8,0>>,<<13,0>>,<<14,0>>,<<15,0>>,<<16,0>>,<<100,0>>,<<102,0>>,<<17,0>>,<<18,0>>,<<41,0>>,<<45,0>>,<<80,0>>,<<68,0>>,<<81,0>>,<<82,0>>>>,
     <<<<49,0>>,<<50,0>>,<<75,0>>,<<76,0>>,<<77,0>>,<<47,0>>,<<46,0>>,<<78,0>>,<<79,0>>,<<133,0>>,<<63,0>>,<<64,0>>,<<65,0>>,<<66,0>>,<<67,0>>,<<3,0>>,<<4,0>>,<<5,0>>,<<7,0>>,<<8,0>>,<<13,0>>,<<14,0>>,<<15,0>>,<<16,0>>,<<100,0>>,<<102,0>>,<<17,0>>,<<18,0>>,<<41,0>>,<<45,0>>,<<80,0>>,<<68,0>>,<<81,0>>,<<82,0>>>>,
     <<<<124,0>>,<<77,0>>,<<125,0>>,<<126,0>>,<<99,0>>,<<75,0>>,<<48,0>>,<<79,0>>,<<63,0>>,<<64,0>>,<<65,0>>,<<66,0>>,<<67,0>>,<<1,0>>,<<2,0>>,<<3,0>>,<<4,0>>,<<5,0>>,<<6,0>>,<<7,0>>,<<8,0>>,<<13,0>>,<<14,0>>,<<15,0>>,<<16,0>>,<<17,0>>,<<18,0>>,<<41,0>>,<<45,0>>,<<80,0>>,<<68,0>>,<<81,0>>,<<82,0>>>>,
     <<<<124,0>>,<<77,0>>,<<125,0>>,<<126,0>>,<<99,0>>,<<75,0>>,<<48,0>>,<<79,0>>,<<63,0>>,<<64,0>>,<<65,0>>,<<66,0>>,<<67,0>>,<<1,0>>,<<2,0>>,<<3,0>>,<<4,0>>,<<5,0>>,<<6,0>>,<<7,0>>,<<8,0>>,<<13,0>>,<<14,0>>,<<15,0>>,<<16,0>>,<<17,0>>,<<18,0>>,<<41,0>>,<<45,0>>,<<80,0>>,<<68,0>>,<<81,0>>,<<82,0>>>>,
     <<<<124,0>>,<<77,0>>,<<125,0>>,<<126,0>>,<<99,0>>,<<75,0>>,<<48,0>>,<<79,0>>,<<63,0>>,<<64,0>>,<<65,0>>,<<66,0>>,<<67,0>>,<<1,0>>,<<2,0>>,<<3,0>>,<<4,0>>,<<5,0>>,<<6,0>>,<<7,0>>,<<8,0>>,<<13,0>>,<<14,0>>,<<15,0>>,<<16,0>>,<<17,0>>,<<18,0>>,<<41,0>>,<<45,0>>,<<80,0>>,<<68,0>>,<<81,0>>,<<82,0>>>>,
     <<<<124,0>>,<<77,0>>,<<125,0>>,<<126,0>>,<<99,0>>,<<75,0>>,<<48,0>>,<<79,0>>,<<63,0>>,<<64,0>>,<<65,0>>,<<66,0>>,<<67,0>>,<<1,0>>,<<3,0>>,<<4,0>>,<<5,0>>,<<6,0>>,<<7,0>>,<<8,0>>,<<13,0>>,<<14,0>>,<<15,0>>,<<16,0>>,<<17,0>>,<<18,0>>,<<41,0>>,<<45,0>>,<<80,0>>,<<68,0>>,<<81,0>>,<<82,0>>>>,
     <<<<50,0>>,<<127,0>>,<<48,0>>,<<47,0>>,<<46,0>>,<<78,0>>,<<128,0>>,<<63,0>>,<<64,0>>,<<65,0>>,<<66,0>>,<<67,0>>,<<1,0>>,<<2,0>>,<<3,0>>,<<4,0>>,<<5,0>>,<<6,0>>,<<7,0>>,<<8,0>>,<<13,0>>,<<14,0>>,<<15,0>>,<<16,0>>,<<17,0>>,<<18,0>>,<<41,0>>,<<45,0>>,<<80,0>>,<<68,0>>,<<81,0>>,<<82,0>>>>,
     <<<<50,0>>,<<152,0>>,<<48,0>>,<<47,0>>,<<46,0>>,<<78,0>>,<<128,0>>,<<153,0>>,<<63,0>>,<<64,0>>,<<65,0>>,<<66,0>>,<<67,0>>,<<1,0>>,<<2,0>>,<<3,0>>,<<4,0>>,<<5,0>>,<<6,0>>,<<7,0>>,<<8,0>>,<<13,0>>,<<14,0>>,<<15,0>>,<<16,0>>,<<17,0>>,<<18,0>>,<<41,0>>,<<45,0>>,<<80,0>>,<<68,0>>,<<81,0>>,<<82,0>>>>,
     <<<<50,0>>,<<127,0>>,<<48,0>>,<<47,0>>,<<46,0>>,<<78,0>>,<<128,0>>,<<63,0>>,<<64,0>>,<<65,0>>,<<66,0>>,<<67,0>>,<<1,0>>,<<2,0>>,<<3,0>>,<<4,0>>,<<5,0>>,<<6,0>>,<<7,0>>,<<8,0>>,<<13,0>>,<<14,0>>,<<15,0>>,<<16,0>>,<<17,0>>,<<18,0>>,<<41,0>>,<<45,0>>,<<80,0>>,<<68,0>>,<<81,0>>,<<82,0>>>>,
     <<<<50,0>>,<<127,0>>,<<48,0>>,<<47,0>>,<<46,0>>,<<78,0>>,<<154,0>>,<<63,0>>,<<64,0>>,<<65,0>>,<<66,0>>,<<67,0>>,<<1,0>>,<<3,0>>,<<4,0>>,<<5,0>>,<<6,0>>,<<7,0>>,<<8,0>>,<<13,0>>,<<14,0>>,<<15,0>>,<<16,0>>,<<17,0>>,<<18,0>>,<<41,0>>,<<45,0>>,<<80,0>>,<<68,0>>,<<81,0>>,<<82,0>>>>,
     <<<<49,0>>,<<50,0>>,<<75,0>>,<<76,0>>,<<77,0>>,<<47,0>>,<<46,0>>,<<79,0>>,<<63,0>>,<<64,0>>,<<65,0>>,<<66,0>>,<<129,0>>,<<1,0>>,<<2,0>>,<<3,0>>,<<4,0>>,<<5,0>>,<<7,0>>,<<8,0>>,<<13,0>>,<<14,0>>,<<15,0>>,<<16,0>>,<<17,0>>,<<18,0>>,<<41,0>>,<<130,0>>,<<131,0>>,<<132,0>>>>,
     <<<<137,0>>,<<75,0>>,<<76,0>>,<<77,0>>,<<47,0>>,<<46,0>>,<<79,0>>,<<63,0>>,<<64,0>>,<<65,0>>,<<66,0>>,<<129,0>>,<<1,0>>,<<2,0>>,<<3,0>>,<<4,0>>,<<5,0>>,<<7,0>>,<<8,0>>,<<13,0>>,<<14,0>>,<<15,0>>,<<16,0>>,<<17,0>>,<<18,0>>,<<41,0>>,<<130,0>>,<<131,0>>,<<132,0>>>>,
     <<<<49,0>>,<<50,0>>,<<75,0>>,<<76,0>>,<<77,0>>,<<47,0>>,<<46,0>>,<<79,0>>,<<63,0>>,<<64,0>>,<<65,0>>,<<66,0>>,<<129,0>>,<<1,0>>,<<2,0>>,<<3,0>>,<<4,0>>,<<5,0>>,<<7,0>>,<<8,0>>,<<13,0>>,<<14,0>>,<<15,0>>,<<16,0>>,<<17,0>>,<<18,0>>,<<41,0>>,<<130,0>>,<<131,0>>,<<132,0>>>>,
     <<<<49,0>>,<<50,0>>,<<75,0>>,<<76,0>>,<<77,0>>,<<47,0>>,<<46,0>>,<<79,0>>,<<63,0>>,<<64,0>>,<<65,0>>,<<66,0>>,<<129,0>>,<<1,0>>,<<3,0>>,<<4,0>>,<<5,0>>,<<7,0>>,<<8,0>>,<<13,0>>,<<14,0>>,<<15,0>>,<<16,0>>,<<17,0>>,<<18,0>>,<<41,0>>,<<130,0>>,<<131,0>>,<<132,0>>>>,
     <<<<49,0>>,<<50,0>>,<<75,0>>,<<76,0>>,<<77,0>>,<<47,0>>,<<46,0>>,<<78,0>>,<<79,0>>,<<133,0>>,<<2,0>>,<<63,0>>,<<64,0>>,<<65,0>>,<<66,0>>,<<67,0>>,<<3,0>>,<<4,0>>,<<5,0>>,<<7,0>>,<<8,0>>,<<13,0>>,<<14,0>>,<<15,0>>,<<16,0>>,<<100,0>>,<<18,0>>,<<41,0>>,<<45,0>>,<<80,0>>,<<68,0>>,<<81,0>>,<<82,0>>>>,
     <<<<137,0>>,<<75,0>>,<<76,0>>,<<77,0>>,<<47,0>>,<<46,0>>,<<78,0>>,<<79,0>>,<<133,0>>,<<2,0>>,<<63,0>>,<<64,0>>,<<65,0>>,<<66,0>>,<<67,0>>,<<3,0>>,<<4,0>>,<<5,0>>,<<7,0>>,<<8,0>>,<<13,0>>,<<14,0>>,<<15,0>>,<<16,0>>,<<100,0>>,<<18,0>>,<<41,0>>,<<45,0>>,<<80,0>>,<<68,0>>,<<81,0>>,<<82,0>>>>,
     <<<<49,0>>,<<50,0>>,<<75,0>>,<<76,0>>,<<77,0>>,<<47,0>>,<<46,0>>,<<78,0>>,<<79,0>>,<<133,0>>,<<2,0>>,<<63,0>>,<<64,0>>,<<65,0>>,<<66,0>>,<<67,0>>,<<3,0>>,<<4,0>>,<<5,0>>,<<7,0>>,<<8,0>>,<<13,0>>,<<14,0>>,<<15,0>>,<<16,0>>,<<100,0>>,<<18,0>>,<<41,0>>,<<45,0>>,<<80,0>>,<<68,0>>,<<81,0>>,<<82,0>>>>,
     <<<<49,0>>,<<50,0>>,<<75,0>>,<<76,0>>,<<77,0>>,<<47,0>>,<<46,0>>,<<78,0>>,<<79,0>>,<<133,0>>,<<63,0>>,<<64,0>>,<<65,0>>,<<66,0>>,<<67,0>>,<<3,0>>,<<4,0>>,<<5,0>>,<<7,0>>,<<8,0>>,<<13,0>>,<<14,0>>,<<15,0>>,<<16,0>>,<<100,0>>,<<18,0>>,<<41,0>>,<<45,0>>,<<80,0>>,<<68,0>>,<<81,0>>,<<82,0>>>>,
     <<<<49,0>>,<<50,0>>,<<75,0>>,<<76,0>>,<<77,0>>,<<47,0>>,<<46,0>>,<<78,0>>,<<79,0>>,<<133,0>>,<<63,0>>,<<64,0>>,<<65,0>>,<<66,0>>,<<67,0>>,<<3,0>>,<<4,0>>,<<5,0>>,<<7,0>>,<<8,0>>,<<13,0>>,<<14,0>>,<<15,0>>,<<16,0>>,<<100,0>>,<<102,0>>,<<17,0>>,<<18,0>>,<<41,0>>,<<45,0>>,<<80,0>>,<<68,0>>,<<81,0>>,<<82,0>>>>,
     <<<<123,0>>,<<137,0>>,<<75,0>>,<<76,0>>,<<77,0>>,<<47,0>>,<<46,0>>,<<78,0>>,<<79,0>>,<<133,0>>,<<63,0>>,<<64,0>>,<<65,0>>,<<66,0>>,<<67,0>>,<<3,0>>,<<4,0>>,<<5,0>>,<<7,0>>,<<8,0>>,<<13,0>>,<<14,0>>,<<15,0>>,<<16,0>>,<<100,0>>,<<102,0>>,<<17,0>>,<<18,0>>,<<41,0>>,<<45,0>>,<<80,0>>,<<68,0>>,<<81,0>>,<<82,0>>>>,
     <<<<49,0>>,<<50,0>>,<<75,0>>,<<76,0>>,<<77,0>>,<<47,0>>,<<46,0>>,<<78,0>>,<<79,0>>,<<133,0>>,<<63,0>>,<<64,0>>,<<65,0>>,<<66,0>>,<<67,0>>,<<3,0>>,<<4,0>>,<<5,0>>,<<7,0>>,<<8,0>>,<<13,0>>,<<14,0>>,<<15,0>>,<<16,0>>,<<100,0>>,<<102,0>>,<<17,0>>,<<18,0>>,<<41,0>>,<<45,0>>,<<80,0>>,<<68,0>>,<<81,0>>,<<82,0>>>>,
     <<<<124,0>>,<<77,0>>,<<125,0>>,<<126,0>>,<<99,0>>,<<75,0>>,<<48,0>>,<<79,0>>,<<63,0>>,<<64,0>>,<<65,0>>,<<66,0>>,<<67,0>>,<<1,0>>,<<2,0>>,<<3,0>>,<<4,0>>,<<5,0>>,<<6,0>>,<<7,0>>,<<8,0>>,<<13,0>>,<<14,0>>,<<15,0>>,<<16,0>>,<<17,0>>,<<18,0>>,<<41,0>>,<<45,0>>,<<80,0>>,<<68,0>>,<<81,0>>,<<82,0>>>>,
     <<<<124,0>>,<<77,0>>,<<125,0>>,<<126,0>>,<<99,0>>,<<75,0>>,<<48,0>>,<<79,0>>,<<63,0>>,<<64,0>>,<<65,0>>,<<66,0>>,<<67,0>>,<<1,0>>,<<2,0>>,<<3,0>>,<<4,0>>,<<5,0>>,<<6,0>>,<<7,0>>,<<8,0>>,<<13,0>>,<<14,0>>,<<15,0>>,<<16,0>>,<<17,0>>,<<18,0>>,<<41,0>>,<<45,0>>,<<80,0>>,<<68,0>>,<<81,0>>,<<82,0>>>>,
     <<<<85,0>>,<<152,0>>,<<48,0>>,<<47,0>>,<<46,0>>,<<78,0>>,<<128,0>>,<<153,0>>,<<63,0>>,<<64,0>>,<<65,0>>,<<66,0>>,<<67,0>>,<<1,0>>,<<2,0>>,<<3,0>>,<<4,0>>,<<5,0>>,<<6,0>>,<<7,0>>,<<8,0>>,<<13,0>>,<<14,0>>,<<15,0>>,<<16,0>>,<<17,0>>,<<18,0>>,<<41,0>>,<<45,0>>,<<80,0>>,<<68,0>>,<<81,0>>,<<82,0>>>>,
     <<<<85,0>>,<<127,0>>,<<48,0>>,<<47,0>>,<<46,0>>,<<78,0>>,<<128,0>>,<<63,0>>,<<64,0>>,<<65,0>>,<<66,0>>,<<67,0>>,<<1,0>>,<<2,0>>,<<3,0>>,<<4,0>>,<<5,0>>,<<6,0>>,<<7,0>>,<<8,0>>,<<13,0>>,<<14,0>>,<<15,0>>,<<16,0>>,<<17,0>>,<<18,0>>,<<41,0>>,<<45,0>>,<<80,0>>,<<68,0>>,<<81,0>>,<<82,0>>>>,
     <<<<137,0>>,<<75,0>>,<<76,0>>,<<77,0>>,<<47,0>>,<<46,0>>,<<79,0>>,<<63,0>>,<<64,0>>,<<65,0>>,<<66,0>>,<<129,0>>,<<1,0>>,<<2,0>>,<<3,0>>,<<4,0>>,<<5,0>>,<<7,0>>,<<8,0>>,<<13,0>>,<<14,0>>,<<15,0>>,<<16,0>>,<<17,0>>,<<18,0>>,<<41,0>>,<<130,0>>,<<131,0>>,<<132,0>>>>,
     <<<<49,0>>,<<85,0>>,<<75,0>>,<<76,0>>,<<77,0>>,<<47,0>>,<<46,0>>,<<79,0>>,<<63,0>>,<<64,0>>,<<65,0>>,<<66,0>>,<<129,0>>,<<1,0>>,<<2,0>>,<<3,0>>,<<4,0>>,<<5,0>>,<<7,0>>,<<8,0>>,<<13,0>>,<<14,0>>,<<15,0>>,<<16,0>>,<<17,0>>,<<18,0>>,<<41,0>>,<<130,0>>,<<131,0>>,<<132,0>>>>,
     <<<<137,0>>,<<75,0>>,<<76,0>>,<<77,0>>,<<47,0>>,<<46,0>>,<<78,0>>,<<79,0>>,<<133,0>>,<<2,0>>,<<63,0>>,<<64,0>>,<<65,0>>,<<66,0>>,<<67,0>>,<<3,0>>,<<4,0>>,<<5,0>>,<<7,0>>,<<8,0>>,<<13,0>>,<<14,0>>,<<15,0>>,<<16,0>>,<<100,0>>,<<18,0>>,<<41,0>>,<<45,0>>,<<80,0>>,<<68,0>>,<<81,0>>,<<82,0>>>>,
     <<<<49,0>>,<<85,0>>,<<75,0>>,<<76,0>>,<<77,0>>,<<47,0>>,<<46,0>>,<<78,0>>,<<79,0>>,<<133,0>>,<<2,0>>,<<63,0>>,<<64,0>>,<<65,0>>,<<66,0>>,<<67,0>>,<<3,0>>,<<4,0>>,<<5,0>>,<<7,0>>,<<8,0>>,<<13,0>>,<<14,0>>,<<15,0>>,<<16,0>>,<<100,0>>,<<18,0>>,<<41,0>>,<<45,0>>,<<80,0>>,<<68,0>>,<<81,0>>,<<82,0>>>>,
     <<<<26,0>>,<<123,0>>,<<137,0>>,<<75,0>>,<<76,0>>,<<77,0>>,<<47,0>>,<<46,0>>,<<78,0>>,<<79,0>>,<<133,0>>,<<63,0>>,<<64,0>>,<<65,0>>,<<66,0>>,<<67,0>>,<<3,0>>,<<4,0>>,<<5,0>>,<<7,0>>,<<8,0>>,<<13,0>>,<<14,0>>,<<15,0>>,<<16,0>>,<<100,0>>,<<102,0>>,<<17,0>>,<<18,0>>,<<41,0>>,<<45,0>>,<<80,0>>,<<68,0>>,<<81,0>>,<<82,0>>>>,
     <<<<26,0>>,<<49,0>>,<<85,0>>,<<75,0>>,<<76,0>>,<<77,0>>,<<47,0>>,<<46,0>>,<<78,0>>,<<79,0>>,<<133,0>>,<<63,0>>,<<64,0>>,<<65,0>>,<<66,0>>,<<67,0>>,<<3,0>>,<<4,0>>,<<5,0>>,<<7,0>>,<<8,0>>,<<13,0>>,<<14,0>>,<<15,0>>,<<16,0>>,<<100,0>>,<<102,0>>,<<17,0>>,<<18,0>>,<<41,0>>,<<45,0>>,<<80,0>>,<<68,0>>,<<81,0>>,<<82,0>>>>,
     <<<<69,0>>,<<87,0>>,<<103,0>>,<<23,0>>,<<24,0>>,<<25,0>>,<<26,0>>,<<27,0>>,<<28,0>>,<<31,0>>,<<32,0>>,<<88,0>>,<<104,0>>,<<155,0>>,<<53,0>>,<<54,0>>,<<55,0>>,<<120,0>>,<<106,0>>,<<35,0>>,<<36,0>>,<<89,0>>,<<37,0>>,<<38,0>>,<<39,0>>,<<40,0>>,<<71,0>>,<<121,0>>,<<63,0>>,<<73,0>>,<<74,0>>,<<90,0>>,<<58,0>>,<<92,0>>,<<93,0>>,<<94,0>>,<<60,0>>,<<86,0>>>>,
     <<<<69,0>>,<<87,0>>,<<103,0>>,<<23,0>>,<<24,0>>,<<25,0>>,<<26,0>>,<<27,0>>,<<28,0>>,<<31,0>>,<<32,0>>,<<104,0>>,<<155,0>>,<<53,0>>,<<54,0>>,<<55,0>>,<<105,0>>,<<106,0>>,<<35,0>>,<<37,0>>,<<38,0>>,<<39,0>>,<<40,0>>,<<71,0>>,<<121,0>>,<<63,0>>,<<73,0>>,<<74,0>>,<<90,0>>,<<58,0>>,<<92,0>>,<<93,0>>,<<94,0>>,<<60,0>>,<<61,0>>>>,
     <<<<69,0>>,<<87,0>>,<<103,0>>,<<23,0>>,<<24,0>>,<<25,0>>,<<26,0>>,<<27,0>>,<<28,0>>,<<31,0>>,<<32,0>>,<<88,0>>,<<104,0>>,<<155,0>>,<<53,0>>,<<54,0>>,<<55,0>>,<<120,0>>,<<106,0>>,<<35,0>>,<<36,0>>,<<89,0>>,<<37,0>>,<<38,0>>,<<39,0>>,<<40,0>>,<<71,0>>,<<121,0>>,<<63,0>>,<<73,0>>,<<74,0>>,<<90,0>>,<<58,0>>,<<92,0>>,<<93,0>>,<<94,0>>,<<60,0>>,<<61,0>>>>,
     <<<<69,0>>,<<87,0>>,<<103,0>>,<<23,0>>,<<24,0>>,<<25,0>>,<<26,0>>,<<27,0>>,<<28,0>>,<<31,0>>,<<32,0>>,<<88,0>>,<<104,0>>,<<155,0>>,<<53,0>>,<<54,0>>,<<55,0>>,<<120,0>>,<<106,0>>,<<35,0>>,<<36,0>>,<<89,0>>,<<37,0>>,<<38,0>>,<<39,0>>,<<40,0>>,<<71,0>>,<<121,0>>,<<63,0>>,<<73,0>>,<<74,0>>,<<90,0>>,<<58,0>>,<<92,0>>,<<93,0>>,<<94,0>>,<<60,0>>,<<61,0>>>>,
     <<<<69,0>>,<<101,0>>,<<112,0>>,<<52,0>>,<<53,0>>,<<54,0>>,<<55,0>>,<<87,0>>,<<56,0>>,<<23,0>>,<<24,0>>,<<70,0>>,<<27,0>>,<<28,0>>,<<31,0>>,<<32,0>>,<<88,0>>,<<35,0>>,<<36,0>>,<<89,0>>,<<37,0>>,<<38,0>>,<<39,0>>,<<40,0>>,<<122,0>>,<<71,0>>,<<72,0>>,<<63,0>>,<<73,0>>,<<2,0>>,<<90,0>>,<<156,0>>,<<58,0>>,<<57,0>>,<<91,0>>,<<92,0>>,<<93,0>>,<<94,0>>,<<60,0>>,<<86,0>>>>,
     <<<<69,0>>,<<101,0>>,<<112,0>>,<<52,0>>,<<53,0>>,<<54,0>>,<<55,0>>,<<87,0>>,<<56,0>>,<<23,0>>,<<24,0>>,<<70,0>>,<<27,0>>,<<28,0>>,<<31,0>>,<<32,0>>,<<35,0>>,<<37,0>>,<<38,0>>,<<39,0>>,<<40,0>>,<<122,0>>,<<71,0>>,<<72,0>>,<<63,0>>,<<73,0>>,<<2,0>>,<<90,0>>,<<156,0>>,<<58,0>>,<<57,0>>,<<91,0>>,<<92,0>>,<<93,0>>,<<94,0>>,<<60,0>>,<<61,0>>>>,
     <<<<69,0>>,<<101,0>>,<<112,0>>,<<52,0>>,<<53,0>>,<<54,0>>,<<55,0>>,<<87,0>>,<<56,0>>,<<23,0>>,<<24,0>>,<<70,0>>,<<27,0>>,<<28,0>>,<<31,0>>,<<32,0>>,<<88,0>>,<<35,0>>,<<36,0>>,<<89,0>>,<<37,0>>,<<38,0>>,<<39,0>>,<<40,0>>,<<122,0>>,<<71,0>>,<<72,0>>,<<63,0>>,<<73,0>>,<<2,0>>,<<90,0>>,<<156,0>>,<<58,0>>,<<57,0>>,<<91,0>>,<<92,0>>,<<93,0>>,<<94,0>>,<<60,0>>,<<61,0>>>>,
     <<<<69,0>>,<<101,0>>,<<112,0>>,<<52,0>>,<<53,0>>,<<54,0>>,<<55,0>>,<<87,0>>,<<56,0>>,<<23,0>>,<<24,0>>,<<70,0>>,<<27,0>>,<<28,0>>,<<31,0>>,<<32,0>>,<<88,0>>,<<35,0>>,<<36,0>>,<<89,0>>,<<37,0>>,<<38,0>>,<<39,0>>,<<40,0>>,<<122,0>>,<<71,0>>,<<72,0>>,<<63,0>>,<<73,0>>,<<90,0>>,<<156,0>>,<<58,0>>,<<57,0>>,<<91,0>>,<<92,0>>,<<93,0>>,<<94,0>>,<<60,0>>,<<61,0>>>>,
     <<<<69,0>>,<<101,0>>,<<52,0>>,<<53,0>>,<<54,0>>,<<55,0>>,<<87,0>>,<<56,0>>,<<23,0>>,<<24,0>>,<<70,0>>,<<27,0>>,<<28,0>>,<<31,0>>,<<32,0>>,<<88,0>>,<<35,0>>,<<36,0>>,<<89,0>>,<<37,0>>,<<38,0>>,<<39,0>>,<<40,0>>,<<26,0>>,<<122,0>>,<<71,0>>,<<72,0>>,<<63,0>>,<<73,0>>,<<74,0>>,<<90,0>>,<<156,0>>,<<58,0>>,<<57,0>>,<<91,0>>,<<92,0>>,<<93,0>>,<<94,0>>,<<60,0>>,<<86,0>>>>,
     <<<<69,0>>,<<101,0>>,<<52,0>>,<<53,0>>,<<54,0>>,<<55,0>>,<<87,0>>,<<56,0>>,<<23,0>>,<<24,0>>,<<70,0>>,<<27,0>>,<<28,0>>,<<31,0>>,<<32,0>>,<<35,0>>,<<37,0>>,<<38,0>>,<<39,0>>,<<40,0>>,<<26,0>>,<<122,0>>,<<71,0>>,<<72,0>>,<<63,0>>,<<73,0>>,<<74,0>>,<<90,0>>,<<156,0>>,<<58,0>>,<<57,0>>,<<91,0>>,<<92,0>>,<<93,0>>,<<94,0>>,<<60,0>>,<<61,0>>>>,
     <<<<69,0>>,<<101,0>>,<<52,0>>,<<53,0>>,<<54,0>>,<<55,0>>,<<87,0>>,<<56,0>>,<<23,0>>,<<24,0>>,<<70,0>>,<<27,0>>,<<28,0>>,<<31,0>>,<<32,0>>,<<88,0>>,<<35,0>>,<<36,0>>,<<89,0>>,<<37,0>>,<<38,0>>,<<39,0>>,<<40,0>>,<<26,0>>,<<122,0>>,<<71,0>>,<<72,0>>,<<63,0>>,<<73,0>>,<<74,0>>,<<90,0>>,<<156,0>>,<<58,0>>,<<57,0>>,<<91,0>>,<<92,0>>,<<93,0>>,<<94,0>>,<<60,0>>,<<61,0>>>>,
     <<<<69,0>>,<<101,0>>,<<52,0>>,<<53,0>>,<<54,0>>,<<55,0>>,<<87,0>>,<<56,0>>,<<23,0>>,<<24,0>>,<<70,0>>,<<27,0>>,<<28,0>>,<<31,0>>,<<32,0>>,<<88,0>>,<<35,0>>,<<36,0>>,<<89,0>>,<<37,0>>,<<38,0>>,<<39,0>>,<<40,0>>,<<26,0>>,<<122,0>>,<<71,0>>,<<72,0>>,<<63,0>>,<<73,0>>,<<74,0>>,<<90,0>>,<<156,0>>,<<58,0>>,<<57,0>>,<<91,0>>,<<92,0>>,<<93,0>>,<<94,0>>,<<60,0>>,<<61,0>>>>,
     <<<<69,0>>,<<87,0>>,<<103,0>>,<<23,0>>,<<24,0>>,<<25,0>>,<<26,0>>,<<27,0>>,<<28,0>>,<<31,0>>,<<32,0>>,<<104,0>>,<<155,0>>,<<53,0>>,<<54,0>>,<<55,0>>,<<105,0>>,<<106,0>>,<<35,0>>,<<36,0>>,<<37,0>>,<<38,0>>,<<39,0>>,<<40,0>>,<<71,0>>,<<121,0>>,<<63,0>>,<<73,0>>,<<74,0>>,<<90,0>>,<<58,0>>,<<92,0>>,<<93,0>>,<<94,0>>,<<60,0>>,<<61,0>>>>,
     <<<<69,0>>,<<87,0>>,<<103,0>>,<<23,0>>,<<24,0>>,<<25,0>>,<<26,0>>,<<27,0>>,<<31,0>>,<<32,0>>,<<104,0>>,<<155,0>>,<<53,0>>,<<54,0>>,<<55,0>>,<<105,0>>,<<106,0>>,<<35,0>>,<<36,0>>,<<37,0>>,<<38,0>>,<<39,0>>,<<40,0>>,<<71,0>>,<<121,0>>,<<63,0>>,<<73,0>>,<<74,0>>,<<90,0>>,<<58,0>>,<<92,0>>,<<93,0>>,<<94,0>>,<<60,0>>,<<61,0>>>>,
     <<<<69,0>>,<<87,0>>,<<103,0>>,<<23,0>>,<<24,0>>,<<25,0>>,<<26,0>>,<<27,0>>,<<31,0>>,<<32,0>>,<<104,0>>,<<155,0>>,<<53,0>>,<<54,0>>,<<55,0>>,<<105,0>>,<<106,0>>,<<35,0>>,<<36,0>>,<<37,0>>,<<38,0>>,<<39,0>>,<<40,0>>,<<71,0>>,<<121,0>>,<<63,0>>,<<73,0>>,<<74,0>>,<<90,0>>,<<58,0>>,<<92,0>>,<<93,0>>,<<94,0>>,<<60,0>>,<<86,0>>>>,
     <<<<69,0>>,<<87,0>>,<<103,0>>,<<23,0>>,<<24,0>>,<<25,0>>,<<26,0>>,<<27,0>>,<<31,0>>,<<32,0>>,<<104,0>>,<<155,0>>,<<53,0>>,<<54,0>>,<<55,0>>,<<105,0>>,<<106,0>>,<<35,0>>,<<36,0>>,<<37,0>>,<<38,0>>,<<39,0>>,<<40,0>>,<<71,0>>,<<121,0>>,<<63,0>>,<<73,0>>,<<74,0>>,<<90,0>>,<<58,0>>,<<92,0>>,<<93,0>>,<<94,0>>,<<60,0>>,<<61,0>>>>,
     <<<<69,0>>,<<101,0>>,<<112,0>>,<<52,0>>,<<53,0>>,<<54,0>>,<<55,0>>,<<87,0>>,<<56,0>>,<<23,0>>,<<24,0>>,<<70,0>>,<<27,0>>,<<28,0>>,<<31,0>>,<<32,0>>,<<35,0>>,<<36,0>>,<<37,0>>,<<38,0>>,<<39,0>>,<<40,0>>,<<122,0>>,<<71,0>>,<<72,0>>,<<63,0>>,<<73,0>>,<<2,0>>,<<90,0>>,<<156,0>>,<<58,0>>,<<57,0>>,<<91,0>>,<<92,0>>,<<93,0>>,<<94,0>>,<<60,0>>,<<61,0>>>>,
     <<<<69,0>>,<<101,0>>,<<112,0>>,<<52,0>>,<<53,0>>,<<54,0>>,<<55,0>>,<<87,0>>,<<56,0>>,<<23,0>>,<<24,0>>,<<70,0>>,<<27,0>>,<<31,0>>,<<32,0>>,<<35,0>>,<<36,0>>,<<37,0>>,<<38,0>>,<<39,0>>,<<40,0>>,<<122,0>>,<<71,0>>,<<72,0>>,<<63,0>>,<<73,0>>,<<2,0>>,<<90,0>>,<<156,0>>,<<58,0>>,<<57,0>>,<<91,0>>,<<92,0>>,<<93,0>>,<<94,0>>,<<60,0>>,<<61,0>>>>,
     <<<<69,0>>,<<101,0>>,<<112,0>>,<<52,0>>,<<53,0>>,<<54,0>>,<<55,0>>,<<87,0>>,<<56,0>>,<<23,0>>,<<24,0>>,<<70,0>>,<<27,0>>,<<31,0>>,<<32,0>>,<<35,0>>,<<36,0>>,<<37,0>>,<<38,0>>,<<39,0>>,<<40,0>>,<<122,0>>,<<71,0>>,<<72,0>>,<<63,0>>,<<73,0>>,<<2,0>>,<<90,0>>,<<156,0>>,<<58,0>>,<<57,0>>,<<91,0>>,<<92,0>>,<<93,0>>,<<94,0>>,<<60,0>>,<<86,0>>>>,
     <<<<69,0>>,<<101,0>>,<<112,0>>,<<52,0>>,<<53,0>>,<<54,0>>,<<55,0>>,<<87,0>>,<<56,0>>,<<23,0>>,<<24,0>>,<<70,0>>,<<27,0>>,<<31,0>>,<<32,0>>,<<35,0>>,<<36,0>>,<<37,0>>,<<38,0>>,<<39,0>>,<<40,0>>,<<122,0>>,<<71,0>>,<<72,0>>,<<63,0>>,<<73,0>>,<<90,0>>,<<156,0>>,<<58,0>>,<<57,0>>,<<91,0>>,<<92,0>>,<<93,0>>,<<94,0>>,<<60,0>>,<<61,0>>>>,
     <<<<69,0>>,<<101,0>>,<<52,0>>,<<53,0>>,<<54,0>>,<<55,0>>,<<87,0>>,<<56,0>>,<<23,0>>,<<24,0>>,<<70,0>>,<<27,0>>,<<28,0>>,<<31,0>>,<<32,0>>,<<35,0>>,<<36,0>>,<<37,0>>,<<38,0>>,<<39,0>>,<<40,0>>,<<26,0>>,<<122,0>>,<<71,0>>,<<72,0>>,<<63,0>>,<<73,0>>,<<74,0>>,<<90,0>>,<<156,0>>,<<58,0>>,<<57,0>>,<<91,0>>,<<92,0>>,<<93,0>>,<<94,0>>,<<60,0>>,<<61,0>>>>,
     <<<<69,0>>,<<101,0>>,<<52,0>>,<<53,0>>,<<54,0>>,<<55,0>>,<<87,0>>,<<56,0>>,<<23,0>>,<<24,0>>,<<70,0>>,<<27,0>>,<<31,0>>,<<32,0>>,<<35,0>>,<<36,0>>,<<37,0>>,<<38,0>>,<<39,0>>,<<40,0>>,<<26,0>>,<<123,0>>,<<122,0>>,<<71,0>>,<<72,0>>,<<63,0>>,<<73,0>>,<<74,0>>,<<90,0>>,<<156,0>>,<<58,0>>,<<57,0>>,<<91,0>>,<<92,0>>,<<93,0>>,<<94,0>>,<<60,0>>,<<61,0>>>>,
     <<<<69,0>>,<<101,0>>,<<52,0>>,<<53,0>>,<<54,0>>,<<55,0>>,<<87,0>>,<<56,0>>,<<23,0>>,<<24,0>>,<<70,0>>,<<27,0>>,<<31,0>>,<<32,0>>,<<35,0>>,<<36,0>>,<<37,0>>,<<38,0>>,<<39,0>>,<<40,0>>,<<26,0>>,<<123,0>>,<<122,0>>,<<71,0>>,<<72,0>>,<<63,0>>,<<73,0>>,<<74,0>>,<<90,0>>,<<156,0>>,<<58,0>>,<<57,0>>,<<91,0>>,<<92,0>>,<<93,0>>,<<94,0>>,<<60,0>>,<<86,0>>>>,
     <<<<69,0>>,<<101,0>>,<<52,0>>,<<53,0>>,<<54,0>>,<<55,0>>,<<87,0>>,<<56,0>>,<<23,0>>,<<24,0>>,<<70,0>>,<<27,0>>,<<31,0>>,<<32,0>>,<<35,0>>,<<36,0>>,<<37,0>>,<<38,0>>,<<39,0>>,<<40,0>>,<<26,0>>,<<123,0>>,<<122,0>>,<<71,0>>,<<72,0>>,<<63,0>>,<<73,0>>,<<74,0>>,<<90,0>>,<<156,0>>,<<58,0>>,<<57,0>>,<<91,0>>,<<92,0>>,<<93,0>>,<<94,0>>,<<60,0>>,<<61,0>>>>,
     <<<<69,0>>,<<87,0>>,<<103,0>>,<<23,0>>,<<24,0>>,<<25,0>>,<<26,0>>,<<27,0>>,<<28,0>>,<<31,0>>,<<32,0>>,<<104,0>>,<<155,0>>,<<53,0>>,<<54,0>>,<<55,0>>,<<105,0>>,<<106,0>>,<<35,0>>,<<36,0>>,<<37,0>>,<<38,0>>,<<39,0>>,<<40,0>>,<<71,0>>,<<121,0>>,<<63,0>>,<<73,0>>,<<74,0>>,<<90,0>>,<<58,0>>,<<92,0>>,<<93,0>>,<<94,0>>,<<60,0>>,<<86,0>>>>,
     <<<<69,0>>,<<87,0>>,<<103,0>>,<<23,0>>,<<24,0>>,<<25,0>>,<<26,0>>,<<27,0>>,<<28,0>>,<<31,0>>,<<32,0>>,<<104,0>>,<<155,0>>,<<53,0>>,<<54,0>>,<<55,0>>,<<105,0>>,<<106,0>>,<<35,0>>,<<36,0>>,<<37,0>>,<<38,0>>,<<39,0>>,<<40,0>>,<<71,0>>,<<121,0>>,<<63,0>>,<<73,0>>,<<74,0>>,<<90,0>>,<<58,0>>,<<92,0>>,<<93,0>>,<<94,0>>,<<60,0>>,<<61,0>>>>,
     <<<<69,0>>,<<101,0>>,<<112,0>>,<<52,0>>,<<53,0>>,<<54,0>>,<<55,0>>,<<87,0>>,<<56,0>>,<<23,0>>,<<24,0>>,<<70,0>>,<<27,0>>,<<28,0>>,<<31,0>>,<<32,0>>,<<35,0>>,<<36,0>>,<<37,0>>,<<38,0>>,<<39,0>>,<<40,0>>,<<122,0>>,<<71,0>>,<<72,0>>,<<63,0>>,<<73,0>>,<<2,0>>,<<90,0>>,<<156,0>>,<<58,0>>,<<57,0>>,<<91,0>>,<<92,0>>,<<93,0>>,<<94,0>>,<<60,0>>,<<86,0>>>>,
     <<<<69,0>>,<<101,0>>,<<112,0>>,<<52,0>>,<<53,0>>,<<54,0>>,<<55,0>>,<<87,0>>,<<56,0>>,<<23,0>>,<<24,0>>,<<70,0>>,<<27,0>>,<<28,0>>,<<31,0>>,<<32,0>>,<<35,0>>,<<36,0>>,<<37,0>>,<<38,0>>,<<39,0>>,<<40,0>>,<<122,0>>,<<71,0>>,<<72,0>>,<<63,0>>,<<73,0>>,<<90,0>>,<<156,0>>,<<58,0>>,<<57,0>>,<<91,0>>,<<92,0>>,<<93,0>>,<<94,0>>,<<60,0>>,<<61,0>>>>,
     <<<<69,0>>,<<101,0>>,<<52,0>>,<<53,0>>,<<54,0>>,<<55,0>>,<<87,0>>,<<56,0>>,<<23,0>>,<<24,0>>,<<70,0>>,<<27,0>>,<<28,0>>,<<31,0>>,<<32,0>>,<<35,0>>,<<36,0>>,<<37,0>>,<<38,0>>,<<39,0>>,<<40,0>>,<<26,0>>,<<122,0>>,<<71,0>>,<<72,0>>,<<63,0>>,<<73,0>>,<<74,0>>,<<90,0>>,<<156,0>>,<<58,0>>,<<57,0>>,<<91,0>>,<<92,0>>,<<93,0>>,<<94,0>>,<<60,0>>,<<86,0>>>>,
     <<<<69,0>>,<<101,0>>,<<52,0>>,<<53,0>>,<<54,0>>,<<55,0>>,<<87,0>>,<<56,0>>,<<23,0>>,<<24,0>>,<<70,0>>,<<27,0>>,<<28,0>>,<<31,0>>,<<32,0>>,<<35,0>>,<<36,0>>,<<37,0>>,<<38,0>>,<<39,0>>,<<40,0>>,<<26,0>>,<<122,0>>,<<71,0>>,<<72,0>>,<<63,0>>,<<73,0>>,<<74,0>>,<<90,0>>,<<156,0>>,<<58,0>>,<<57,0>>,<<91,0>>,<<92,0>>,<<93,0>>,<<94,0>>,<<60,0>>,<<61,0>>>>,
     <<<<69,0>>,<<87,0>>,<<103,0>>,<<23,0>>,<<24,0>>,<<25,0>>,<<26,0>>,<<27,0>>,<<28,0>>,<<31,0>>,<<32,0>>,<<104,0>>,<<155,0>>,<<53,0>>,<<54,0>>,<<55,0>>,<<105,0>>,<<106,0>>,<<35,0>>,<<36,0>>,<<37,0>>,<<38,0>>,<<39,0>>,<<40,0>>,<<71,0>>,<<121,0>>,<<63,0>>,<<73,0>>,<<74,0>>,<<90,0>>,<<58,0>>,<<92,0>>,<<93,0>>,<<94,0>>,<<60,0>>,<<61,0>>>>,
     <<<<69,0>>,<<101,0>>,<<112,0>>,<<52,0>>,<<53,0>>,<<54,0>>,<<55,0>>,<<87,0>>,<<56,0>>,<<23,0>>,<<24,0>>,<<70,0>>,<<27,0>>,<<28,0>>,<<31,0>>,<<32,0>>,<<35,0>>,<<36,0>>,<<37,0>>,<<38,0>>,<<39,0>>,<<40,0>>,<<122,0>>,<<71,0>>,<<72,0>>,<<63,0>>,<<73,0>>,<<90,0>>,<<156,0>>,<<58,0>>,<<57,0>>,<<91,0>>,<<92,0>>,<<93,0>>,<<94,0>>,<<60,0>>,<<61,0>>>>,
     <<<<69,0>>,<<101,0>>,<<52,0>>,<<53,0>>,<<54,0>>,<<55,0>>,<<87,0>>,<<56,0>>,<<23,0>>,<<24,0>>,<<70,0>>,<<27,0>>,<<28,0>>,<<31,0>>,<<32,0>>,<<35,0>>,<<36,0>>,<<37,0>>,<<38,0>>,<<39,0>>,<<40,0>>,<<26,0>>,<<122,0>>,<<71,0>>,<<72,0>>,<<63,0>>,<<73,0>>,<<74,0>>,<<90,0>>,<<156,0>>,<<58,0>>,<<57,0>>,<<91,0>>,<<92,0>>,<<93,0>>,<<94,0>>,<<60,0>>,<<61,0>>>>,
     <<<<69,0>>,<<87,0>>,<<103,0>>,<<23,0>>,<<24,0>>,<<25,0>>,<<27,0>>,<<28,0>>,<<31,0>>,<<32,0>>,<<104,0>>,<<155,0>>,<<53,0>>,<<54,0>>,<<55,0>>,<<105,0>>,<<106,0>>,<<35,0>>,<<36,0>>,<<37,0>>,<<38,0>>,<<39,0>>,<<40,0>>,<<71,0>>,<<121,0>>,<<63,0>>,<<73,0>>,<<150,0>>,<<90,0>>,<<58,0>>,<<92,0>>,<<93,0>>,<<94,0>>,<<60,0>>,<<61,0>>>>,
     <<<<69,0>>,<<87,0>>,<<103,0>>,<<23,0>>,<<24,0>>,<<25,0>>,<<26,0>>,<<27,0>>,<<28,0>>,<<31,0>>,<<32,0>>,<<104,0>>,<<155,0>>,<<53,0>>,<<54,0>>,<<55,0>>,<<105,0>>,<<106,0>>,<<35,0>>,<<36,0>>,<<37,0>>,<<38,0>>,<<39,0>>,<<40,0>>,<<71,0>>,<<121,0>>,<<63,0>>,<<73,0>>,<<74,0>>,<<90,0>>,<<58,0>>,<<92,0>>,<<93,0>>,<<94,0>>,<<60,0>>,<<61,0>>>>,
     <<<<69,0>>,<<87,0>>,<<103,0>>,<<23,0>>,<<24,0>>,<<25,0>>,<<26,0>>,<<27,0>>,<<28,0>>,<<31,0>>,<<32,0>>,<<104,0>>,<<155,0>>,<<53,0>>,<<54,0>>,<<55,0>>,<<105,0>>,<<106,0>>,<<35,0>>,<<36,0>>,<<37,0>>,<<38,0>>,<<39,0>>,<<40,0>>,<<71,0>>,<<121,0>>,<<63,0>>,<<151,0>>,<<74,0>>,<<90,0>>,<<58,0>>,<<92,0>>,<<93,0>>,<<94,0>>,<<139,0>>>>,
     <<<<69,0>>,<<101,0>>,<<112,0>>,<<52,0>>,<<53,0>>,<<54,0>>,<<55,0>>,<<87,0>>,<<56,0>>,<<23,0>>,<<24,0>>,<<70,0>>,<<27,0>>,<<28,0>>,<<31,0>>,<<32,0>>,<<88,0>>,<<35,0>>,<<36,0>>,<<89,0>>,<<37,0>>,<<38,0>>,<<39,0>>,<<40,0>>,<<122,0>>,<<71,0>>,<<72,0>>,<<63,0>>,<<73,0>>,<<90,0>>,<<156,0>>,<<58,0>>,<<57,0>>,<<91,0>>,<<92,0>>,<<93,0>>,<<94,0>>,<<60,0>>,<<61,0>>>>,
     <<<<69,0>>,<<101,0>>,<<112,0>>,<<52,0>>,<<53,0>>,<<54,0>>,<<55,0>>,<<87,0>>,<<56,0>>,<<23,0>>,<<24,0>>,<<70,0>>,<<27,0>>,<<31,0>>,<<32,0>>,<<35,0>>,<<36,0>>,<<37,0>>,<<38,0>>,<<39,0>>,<<40,0>>,<<122,0>>,<<71,0>>,<<72,0>>,<<63,0>>,<<73,0>>,<<90,0>>,<<156,0>>,<<58,0>>,<<57,0>>,<<91,0>>,<<92,0>>,<<93,0>>,<<94,0>>,<<60,0>>,<<61,0>>>>,
     <<<<69,0>>,<<101,0>>,<<112,0>>,<<52,0>>,<<53,0>>,<<54,0>>,<<55,0>>,<<87,0>>,<<56,0>>,<<23,0>>,<<24,0>>,<<70,0>>,<<27,0>>,<<28,0>>,<<31,0>>,<<32,0>>,<<35,0>>,<<36,0>>,<<37,0>>,<<38,0>>,<<39,0>>,<<40,0>>,<<122,0>>,<<71,0>>,<<72,0>>,<<63,0>>,<<73,0>>,<<90,0>>,<<156,0>>,<<58,0>>,<<57,0>>,<<91,0>>,<<92,0>>,<<93,0>>,<<94,0>>,<<60,0>>,<<61,0>>>>,
     <<<<69,0>>,<<101,0>>,<<112,0>>,<<52,0>>,<<53,0>>,<<54,0>>,<<55,0>>,<<87,0>>,<<56,0>>,<<23,0>>,<<24,0>>,<<70,0>>,<<27,0>>,<<28,0>>,<<31,0>>,<<32,0>>,<<35,0>>,<<36,0>>,<<37,0>>,<<38,0>>,<<39,0>>,<<40,0>>,<<122,0>>,<<71,0>>,<<72,0>>,<<63,0>>,<<73,0>>,<<90,0>>,<<156,0>>,<<58,0>>,<<57,0>>,<<91,0>>,<<92,0>>,<<93,0>>,<<94,0>>,<<60,0>>,<<61,0>>>>,
     <<<<69,0>>,<<101,0>>,<<112,0>>,<<52,0>>,<<53,0>>,<<54,0>>,<<55,0>>,<<87,0>>,<<56,0>>,<<23,0>>,<<24,0>>,<<70,0>>,<<27,0>>,<<28,0>>,<<31,0>>,<<32,0>>,<<35,0>>,<<36,0>>,<<37,0>>,<<38,0>>,<<39,0>>,<<40,0>>,<<122,0>>,<<71,0>>,<<72,0>>,<<63,0>>,<<151,0>>,<<140,0>>,<<90,0>>,<<156,0>>,<<58,0>>,<<57,0>>,<<91,0>>,<<92,0>>,<<93,0>>,<<94,0>>,<<139,0>>>>,
     <<<<69,0>>,<<101,0>>,<<52,0>>,<<53,0>>,<<54,0>>,<<55,0>>,<<87,0>>,<<56,0>>,<<23,0>>,<<24,0>>,<<70,0>>,<<27,0>>,<<28,0>>,<<31,0>>,<<32,0>>,<<35,0>>,<<36,0>>,<<37,0>>,<<38,0>>,<<39,0>>,<<40,0>>,<<122,0>>,<<71,0>>,<<72,0>>,<<63,0>>,<<73,0>>,<<150,0>>,<<90,0>>,<<156,0>>,<<58,0>>,<<57,0>>,<<91,0>>,<<92,0>>,<<93,0>>,<<94,0>>,<<60,0>>,<<61,0>>>>,
     <<<<69,0>>,<<101,0>>,<<52,0>>,<<53,0>>,<<54,0>>,<<55,0>>,<<87,0>>,<<56,0>>,<<23,0>>,<<24,0>>,<<70,0>>,<<27,0>>,<<28,0>>,<<31,0>>,<<32,0>>,<<35,0>>,<<36,0>>,<<37,0>>,<<38,0>>,<<39,0>>,<<40,0>>,<<26,0>>,<<122,0>>,<<71,0>>,<<72,0>>,<<63,0>>,<<73,0>>,<<74,0>>,<<90,0>>,<<156,0>>,<<58,0>>,<<57,0>>,<<91,0>>,<<92,0>>,<<93,0>>,<<94,0>>,<<60,0>>,<<61,0>>>>,
     <<<<69,0>>,<<101,0>>,<<52,0>>,<<53,0>>,<<54,0>>,<<55,0>>,<<87,0>>,<<56,0>>,<<23,0>>,<<24,0>>,<<70,0>>,<<27,0>>,<<28,0>>,<<31,0>>,<<32,0>>,<<35,0>>,<<36,0>>,<<37,0>>,<<38,0>>,<<39,0>>,<<40,0>>,<<26,0>>,<<122,0>>,<<71,0>>,<<72,0>>,<<63,0>>,<<151,0>>,<<74,0>>,<<90,0>>,<<156,0>>,<<58,0>>,<<57,0>>,<<91,0>>,<<92,0>>,<<93,0>>,<<94,0>>,<<139,0>>>>,
     <<<<12,0>>,<<1,0>>,<<2,0>>,<<3,0>>,<<4,0>>,<<5,0>>,<<6,0>>,<<7,0>>,<<8,0>>,<<13,0>>,<<14,0>>,<<15,0>>,<<16,0>>,<<17,0>>,<<18,0>>,<<41,0>>,<<45,0>>,<<83,0>>,<<46,0>>,<<47,0>>,<<48,0>>,<<49,0>>,<<50,0>>,<<51,0>>,<<20,0>>>>,
     <<<<34,0>>,<<12,0>>,<<1,0>>,<<2,0>>,<<3,0>>,<<4,0>>,<<5,0>>,<<6,0>>,<<7,0>>,<<8,0>>,<<13,0>>,<<14,0>>,<<15,0>>,<<16,0>>,<<17,0>>,<<18,0>>,<<41,0>>,<<45,0>>,<<83,0>>,<<46,0>>,<<47,0>>,<<48,0>>,<<49,0>>,<<85,0>>,<<51,0>>,<<20,0>>>>,
     <<<<34,0>>,<<12,0>>,<<1,0>>,<<2,0>>,<<3,0>>,<<4,0>>,<<5,0>>,<<6,0>>,<<7,0>>,<<8,0>>,<<13,0>>,<<14,0>>,<<15,0>>,<<16,0>>,<<17,0>>,<<18,0>>,<<41,0>>,<<45,0>>,<<83,0>>,<<46,0>>,<<47,0>>,<<48,0>>,<<49,0>>,<<50,0>>,<<51,0>>,<<20,0>>>>,
     <<<<10,0>>,<<12,0>>,<<1,0>>,<<2,0>>,<<3,0>>,<<4,0>>,<<5,0>>,<<6,0>>,<<7,0>>,<<8,0>>,<<13,0>>,<<14,0>>,<<15,0>>,<<16,0>>,<<17,0>>,<<18,0>>,<<41,0>>,<<45,0>>,<<83,0>>,<<46,0>>,<<47,0>>,<<48,0>>,<<49,0>>,<<50,0>>,<<51,0>>,<<20,0>>>>,
     <<<<10,0>>,<<12,0>>,<<1,0>>,<<2,0>>,<<3,0>>,<<4,0>>,<<5,0>>,<<6,0>>,<<7,0>>,<<8,0>>,<<13,0>>,<<14,0>>,<<15,0>>,<<16,0>>,<<17,0>>,<<18,0>>,<<41,0>>,<<45,0>>,<<83,0>>,<<46,0>>,<<47,0>>,<<48,0>>,<<49,0>>,<<85,0>>,<<51,0>>,<<20,0>>>>,
     <<<<10,0>>,<<12,0>>,<<1,0>>,<<2,0>>,<<3,0>>,<<4,0>>,<<5,0>>,<<6,0>>,<<7,0>>,<<8,0>>,<<13,0>>,<<14,0>>,<<15,0>>,<<16,0>>,<<17,0>>,<<18,0>>,<<41,0>>,<<45,0>>,<<83,0>>,<<46,0>>,<<47,0>>,<<48,0>>,<<49,0>>,<<50,0>>,<<51,0>>,<<20,0>>>>,
     <<<<36,0>>,<<134,0>>,<<1,0>>,<<2,0>>,<<3,0>>,<<4,0>>,<<5,0>>,<<6,0>>,<<7,0>>,<<8,0>>,<<9,0>>,<<10,0>>,<<13,0>>,<<14,0>>,<<15,0>>,<<16,0>>,<<17,0>>,<<18,0>>,<<83,0>>,<<19,0>>,<<20,0>>>>,
     <<<<36,0>>,<<1,0>>,<<2,0>>,<<3,0>>,<<4,0>>,<<5,0>>,<<6,0>>,<<7,0>>,<<8,0>>,<<9,0>>,<<10,0>>,<<13,0>>,<<14,0>>,<<15,0>>,<<16,0>>,<<17,0>>,<<18,0>>,<<83,0>>,<<19,0>>,<<20,0>>>>,
     <<<<36,0>>,<<1,0>>,<<2,0>>,<<3,0>>,<<4,0>>,<<5,0>>,<<6,0>>,<<7,0>>,<<8,0>>,<<9,0>>,<<10,0>>,<<13,0>>,<<14,0>>,<<15,0>>,<<16,0>>,<<17,0>>,<<18,0>>,<<83,0>>,<<19,0>>,<<20,0>>>>,
     <<<<12,0>>,<<1,0>>,<<2,0>>,<<3,0>>,<<4,0>>,<<5,0>>,<<6,0>>,<<7,0>>,<<8,0>>,<<13,0>>,<<14,0>>,<<15,0>>,<<16,0>>,<<17,0>>,<<18,0>>,<<41,0>>,<<45,0>>,<<83,0>>,<<46,0>>,<<47,0>>,<<48,0>>,<<49,0>>,<<85,0>>,<<51,0>>,<<20,0>>>>,
     <<<<34,0>>,<<12,0>>,<<1,0>>,<<2,0>>,<<3,0>>,<<4,0>>,<<5,0>>,<<6,0>>,<<7,0>>,<<8,0>>,<<13,0>>,<<14,0>>,<<15,0>>,<<16,0>>,<<17,0>>,<<18,0>>,<<41,0>>,<<45,0>>,<<83,0>>,<<46,0>>,<<47,0>>,<<48,0>>,<<49,0>>,<<85,0>>,<<51,0>>,<<20,0>>>>,
     <<<<10,0>>,<<12,0>>,<<1,0>>,<<2,0>>,<<3,0>>,<<4,0>>,<<5,0>>,<<6,0>>,<<7,0>>,<<8,0>>,<<13,0>>,<<14,0>>,<<15,0>>,<<16,0>>,<<17,0>>,<<18,0>>,<<41,0>>,<<45,0>>,<<83,0>>,<<46,0>>,<<47,0>>,<<48,0>>,<<49,0>>,<<85,0>>,<<51,0>>,<<20,0>>>>,
     <<<<10,0>>,<<12,0>>,<<1,0>>,<<2,0>>,<<3,0>>,<<4,0>>,<<5,0>>,<<6,0>>,<<7,0>>,<<8,0>>,<<13,0>>,<<14,0>>,<<15,0>>,<<16,0>>,<<17,0>>,<<18,0>>,<<41,0>>,<<45,0>>,<<83,0>>,<<46,0>>,<<47,0>>,<<48,0>>,<<49,0>>,<<85,0>>,<<51,0>>,<<20,0>>>>,
     <<<<36,0>>,<<134,0>>,<<1,0>>,<<2,0>>,<<3,0>>,<<4,0>>,<<5,0>>,<<6,0>>,<<7,0>>,<<8,0>>,<<9,0>>,<<10,0>>,<<13,0>>,<<14,0>>,<<15,0>>,<<16,0>>,<<17,0>>,<<18,0>>,<<83,0>>,<<19,0>>,<<20,0>>>>,
     <<<<36,0>>,<<1,0>>,<<2,0>>,<<3,0>>,<<4,0>>,<<5,0>>,<<6,0>>,<<7,0>>,<<8,0>>,<<9,0>>,<<10,0>>,<<13,0>>,<<14,0>>,<<15,0>>,<<16,0>>,<<17,0>>,<<18,0>>,<<83,0>>,<<19,0>>,<<20,0>>>>,
     <<<<21,0>>,<<22,0>>,<<103,0>>,<<23,0>>,<<24,0>>,<<25,0>>,<<26,0>>,<<27,0>>,<<28,0>>,<<29,0>>,<<30,0>>,<<31,0>>,<<32,0>>,<<104,0>>,<<53,0>>,<<54,0>>,<<95,0>>,<<105,0>>,<<106,0>>,<<107,0>>,<<108,0>>,<<111,0>>,<<35,0>>,<<36,0>>,<<37,0>>,<<38,0>>,<<39,0>>,<<40,0>>,<<96,0>>>>,
     <<<<101,0>>,<<112,0>>,<<21,0>>,<<22,0>>,<<52,0>>,<<53,0>>,<<54,0>>,<<95,0>>,<<56,0>>,<<57,0>>,<<58,0>>,<<59,0>>,<<60,0>>,<<61,0>>,<<23,0>>,<<24,0>>,<<62,0>>,<<27,0>>,<<28,0>>,<<29,0>>,<<30,0>>,<<31,0>>,<<32,0>>,<<35,0>>,<<36,0>>,<<37,0>>,<<38,0>>,<<39,0>>,<<40,0>>,<<2,0>>,<<96,0>>>>,
     <<<<101,0>>,<<21,0>>,<<52,0>>,<<53,0>>,<<54,0>>,<<95,0>>,<<56,0>>,<<57,0>>,<<58,0>>,<<59,0>>,<<60,0>>,<<61,0>>,<<23,0>>,<<24,0>>,<<62,0>>,<<27,0>>,<<28,0>>,<<29,0>>,<<30,0>>,<<31,0>>,<<32,0>>,<<35,0>>,<<36,0>>,<<37,0>>,<<38,0>>,<<39,0>>,<<40,0>>,<<26,0>>,<<96,0>>>>,
     <<<<21,0>>,<<22,0>>,<<52,0>>,<<53,0>>,<<54,0>>,<<95,0>>,<<56,0>>,<<57,0>>,<<58,0>>,<<59,0>>,<<60,0>>,<<61,0>>,<<23,0>>,<<24,0>>,<<62,0>>,<<25,0>>,<<26,0>>,<<27,0>>,<<28,0>>,<<29,0>>,<<30,0>>,<<31,0>>,<<32,0>>,<<35,0>>,<<36,0>>,<<37,0>>,<<38,0>>,<<39,0>>,<<40,0>>>>,
     <<<<101,0>>,<<112,0>>,<<21,0>>,<<22,0>>,<<52,0>>,<<53,0>>,<<54,0>>,<<95,0>>,<<56,0>>,<<57,0>>,<<58,0>>,<<59,0>>,<<60,0>>,<<61,0>>,<<23,0>>,<<24,0>>,<<62,0>>,<<27,0>>,<<28,0>>,<<29,0>>,<<30,0>>,<<31,0>>,<<32,0>>,<<35,0>>,<<36,0>>,<<37,0>>,<<38,0>>,<<39,0>>,<<40,0>>,<<2,0>>>>,
     <<<<101,0>>,<<21,0>>,<<52,0>>,<<53,0>>,<<54,0>>,<<95,0>>,<<56,0>>,<<57,0>>,<<58,0>>,<<59,0>>,<<60,0>>,<<61,0>>,<<23,0>>,<<24,0>>,<<62,0>>,<<27,0>>,<<28,0>>,<<29,0>>,<<30,0>>,<<31,0>>,<<32,0>>,<<35,0>>,<<36,0>>,<<37,0>>,<<38,0>>,<<39,0>>,<<40,0>>,<<26,0>>>>,
     <<<<21,0>>,<<22,0>>,<<103,0>>,<<23,0>>,<<24,0>>,<<25,0>>,<<26,0>>,<<27,0>>,<<28,0>>,<<29,0>>,<<30,0>>,<<31,0>>,<<32,0>>,<<104,0>>,<<53,0>>,<<54,0>>,<<95,0>>,<<105,0>>,<<106,0>>,<<107,0>>,<<108,0>>,<<111,0>>,<<35,0>>,<<36,0>>,<<37,0>>,<<38,0>>,<<39,0>>,<<40,0>>>>,
     <<<<21,0>>,<<22,0>>,<<52,0>>,<<53,0>>,<<54,0>>,<<95,0>>,<<56,0>>,<<57,0>>,<<58,0>>,<<59,0>>,<<60,0>>,<<61,0>>,<<23,0>>,<<24,0>>,<<62,0>>,<<25,0>>,<<26,0>>,<<27,0>>,<<28,0>>,<<29,0>>,<<30,0>>,<<31,0>>,<<32,0>>,<<35,0>>,<<37,0>>,<<38,0>>,<<39,0>>,<<40,0>>,<<9,0>>>>,
     <<<<21,0>>,<<22,0>>,<<52,0>>,<<53,0>>,<<54,0>>,<<95,0>>,<<56,0>>,<<57,0>>,<<58,0>>,<<59,0>>,<<60,0>>,<<61,0>>,<<23,0>>,<<24,0>>,<<62,0>>,<<25,0>>,<<26,0>>,<<27,0>>,<<28,0>>,<<29,0>>,<<30,0>>,<<31,0>>,<<32,0>>,<<35,0>>,<<36,0>>,<<37,0>>,<<38,0>>,<<39,0>>,<<40,0>>,<<9,0>>>>,
     <<<<101,0>>,<<112,0>>,<<21,0>>,<<22,0>>,<<52,0>>,<<53,0>>,<<54,0>>,<<95,0>>,<<56,0>>,<<57,0>>,<<58,0>>,<<59,0>>,<<60,0>>,<<61,0>>,<<23,0>>,<<24,0>>,<<62,0>>,<<27,0>>,<<28,0>>,<<29,0>>,<<30,0>>,<<31,0>>,<<32,0>>,<<35,0>>,<<36,0>>,<<37,0>>,<<38,0>>,<<39,0>>,<<40,0>>,<<2,0>>,<<96,0>>>>,
     <<<<101,0>>,<<112,0>>,<<21,0>>,<<22,0>>,<<52,0>>,<<53,0>>,<<54,0>>,<<95,0>>,<<56,0>>,<<57,0>>,<<58,0>>,<<59,0>>,<<60,0>>,<<61,0>>,<<23,0>>,<<24,0>>,<<62,0>>,<<27,0>>,<<28,0>>,<<29,0>>,<<30,0>>,<<31,0>>,<<32,0>>,<<35,0>>,<<37,0>>,<<38,0>>,<<39,0>>,<<40,0>>,<<2,0>>,<<10,0>>>>,
     <<<<101,0>>,<<21,0>>,<<52,0>>,<<53,0>>,<<54,0>>,<<95,0>>,<<56,0>>,<<57,0>>,<<58,0>>,<<59,0>>,<<60,0>>,<<61,0>>,<<23,0>>,<<24,0>>,<<62,0>>,<<27,0>>,<<28,0>>,<<29,0>>,<<30,0>>,<<31,0>>,<<32,0>>,<<35,0>>,<<36,0>>,<<37,0>>,<<38,0>>,<<39,0>>,<<40,0>>,<<26,0>>,<<96,0>>>>,
     <<<<101,0>>,<<21,0>>,<<52,0>>,<<53,0>>,<<54,0>>,<<95,0>>,<<56,0>>,<<57,0>>,<<58,0>>,<<59,0>>,<<60,0>>,<<61,0>>,<<23,0>>,<<24,0>>,<<62,0>>,<<27,0>>,<<28,0>>,<<29,0>>,<<30,0>>,<<31,0>>,<<32,0>>,<<35,0>>,<<37,0>>,<<38,0>>,<<39,0>>,<<40,0>>,<<26,0>>,<<10,0>>>>,
     <<<<21,0>>,<<22,0>>,<<103,0>>,<<23,0>>,<<24,0>>,<<25,0>>,<<26,0>>,<<27,0>>,<<28,0>>,<<29,0>>,<<30,0>>,<<31,0>>,<<32,0>>,<<104,0>>,<<53,0>>,<<54,0>>,<<95,0>>,<<105,0>>,<<106,0>>,<<107,0>>,<<108,0>>,<<111,0>>,<<35,0>>,<<36,0>>,<<37,0>>,<<38,0>>,<<39,0>>,<<40,0>>,<<96,0>>>>,
     <<<<21,0>>,<<22,0>>,<<103,0>>,<<23,0>>,<<24,0>>,<<25,0>>,<<26,0>>,<<27,0>>,<<28,0>>,<<29,0>>,<<30,0>>,<<31,0>>,<<32,0>>,<<104,0>>,<<53,0>>,<<54,0>>,<<95,0>>,<<105,0>>,<<106,0>>,<<107,0>>,<<108,0>>,<<111,0>>,<<35,0>>,<<37,0>>,<<38,0>>,<<39,0>>,<<40,0>>,<<10,0>>>>,
     <<<<38,0>>,<<12,0>>,<<97,0>>,<<1,0>>,<<2,0>>,<<3,0>>,<<4,0>>,<<5,0>>,<<6,0>>,<<7,0>>,<<8,0>>,<<15,0>>,<<16,0>>,<<17,0>>,<<18,0>>,<<41,0>>,<<45,0>>,<<83,0>>,<<46,0>>,<<47,0>>,<<48,0>>,<<49,0>>,<<50,0>>,<<98,0>>,<<99,0>>,<<51,0>>,<<20,0>>>>,
     <<<<38,0>>,<<12,0>>,<<97,0>>,<<1,0>>,<<2,0>>,<<3,0>>,<<4,0>>,<<5,0>>,<<6,0>>,<<7,0>>,<<8,0>>,<<15,0>>,<<16,0>>,<<17,0>>,<<18,0>>,<<41,0>>,<<45,0>>,<<83,0>>,<<46,0>>,<<47,0>>,<<48,0>>,<<49,0>>,<<50,0>>,<<98,0>>,<<99,0>>,<<51,0>>,<<20,0>>>>,
     <<<<38,0>>,<<12,0>>,<<97,0>>,<<1,0>>,<<2,0>>,<<3,0>>,<<4,0>>,<<5,0>>,<<6,0>>,<<7,0>>,<<8,0>>,<<15,0>>,<<16,0>>,<<17,0>>,<<18,0>>,<<41,0>>,<<45,0>>,<<83,0>>,<<46,0>>,<<47,0>>,<<48,0>>,<<49,0>>,<<85,0>>,<<98,0>>,<<99,0>>,<<51,0>>,<<20,0>>>>,
     <<<<37,0>>,<<12,0>>,<<1,0>>,<<2,0>>,<<3,0>>,<<4,0>>,<<5,0>>,<<6,0>>,<<7,0>>,<<8,0>>,<<157,0>>,<<15,0>>,<<16,0>>,<<17,0>>,<<18,0>>,<<98,0>>,<<99,0>>,<<20,0>>>>,
     <<<<37,0>>,<<12,0>>,<<97,0>>,<<1,0>>,<<2,0>>,<<3,0>>,<<4,0>>,<<5,0>>,<<6,0>>,<<7,0>>,<<8,0>>,<<9,0>>,<<15,0>>,<<16,0>>,<<17,0>>,<<18,0>>,<<83,0>>,<<98,0>>,<<99,0>>,<<20,0>>>>,
     <<<<37,0>>,<<12,0>>,<<97,0>>,<<1,0>>,<<2,0>>,<<3,0>>,<<4,0>>,<<5,0>>,<<6,0>>,<<7,0>>,<<8,0>>,<<9,0>>,<<15,0>>,<<16,0>>,<<17,0>>,<<18,0>>,<<83,0>>,<<98,0>>,<<99,0>>,<<20,0>>>>,
     <<<<37,0>>,<<12,0>>,<<97,0>>,<<1,0>>,<<2,0>>,<<3,0>>,<<4,0>>,<<5,0>>,<<6,0>>,<<7,0>>,<<8,0>>,<<9,0>>,<<15,0>>,<<16,0>>,<<17,0>>,<<18,0>>,<<83,0>>,<<98,0>>,<<99,0>>,<<20,0>>>>,
     <<<<36,0>>,<<38,0>>,<<1,0>>,<<2,0>>,<<3,0>>,<<4,0>>,<<5,0>>,<<6,0>>,<<7,0>>,<<8,0>>,<<157,0>>,<<15,0>>,<<16,0>>,<<17,0>>,<<18,0>>,<<98,0>>,<<99,0>>,<<19,0>>,<<20,0>>>>,
     <<<<36,0>>,<<38,0>>,<<1,0>>,<<2,0>>,<<3,0>>,<<4,0>>,<<5,0>>,<<6,0>>,<<7,0>>,<<8,0>>,<<9,0>>,<<15,0>>,<<16,0>>,<<17,0>>,<<18,0>>,<<83,0>>,<<98,0>>,<<99,0>>,<<19,0>>,<<20,0>>>>,
     <<<<36,0>>,<<38,0>>,<<1,0>>,<<2,0>>,<<3,0>>,<<4,0>>,<<5,0>>,<<6,0>>,<<7,0>>,<<8,0>>,<<9,0>>,<<15,0>>,<<16,0>>,<<17,0>>,<<18,0>>,<<83,0>>,<<98,0>>,<<99,0>>,<<19,0>>,<<20,0>>>>,
     <<<<36,0>>,<<38,0>>,<<1,0>>,<<2,0>>,<<3,0>>,<<4,0>>,<<5,0>>,<<6,0>>,<<7,0>>,<<8,0>>,<<9,0>>,<<15,0>>,<<16,0>>,<<17,0>>,<<18,0>>,<<83,0>>,<<98,0>>,<<99,0>>,<<19,0>>,<<20,0>>>>,
     <<<<38,0>>,<<12,0>>,<<1,0>>,<<2,0>>,<<3,0>>,<<4,0>>,<<5,0>>,<<6,0>>,<<7,0>>,<<8,0>>,<<15,0>>,<<16,0>>,<<17,0>>,<<18,0>>,<<41,0>>,<<45,0>>,<<83,0>>,<<46,0>>,<<47,0>>,<<48,0>>,<<49,0>>,<<50,0>>,<<98,0>>,<<99,0>>,<<51,0>>,<<20,0>>>>,
     <<<<38,0>>,<<12,0>>,<<1,0>>,<<2,0>>,<<3,0>>,<<4,0>>,<<5,0>>,<<6,0>>,<<7,0>>,<<8,0>>,<<15,0>>,<<16,0>>,<<17,0>>,<<18,0>>,<<41,0>>,<<45,0>>,<<83,0>>,<<46,0>>,<<47,0>>,<<48,0>>,<<137,0>>,<<98,0>>,<<99,0>>,<<51,0>>,<<20,0>>>>,
     <<<<38,0>>,<<12,0>>,<<1,0>>,<<2,0>>,<<3,0>>,<<4,0>>,<<5,0>>,<<6,0>>,<<7,0>>,<<8,0>>,<<15,0>>,<<16,0>>,<<17,0>>,<<18,0>>,<<41,0>>,<<45,0>>,<<83,0>>,<<46,0>>,<<47,0>>,<<48,0>>,<<49,0>>,<<50,0>>,<<98,0>>,<<99,0>>,<<51,0>>,<<20,0>>>>,
     <<<<38,0>>,<<12,0>>,<<1,0>>,<<3,0>>,<<4,0>>,<<5,0>>,<<6,0>>,<<7,0>>,<<8,0>>,<<15,0>>,<<16,0>>,<<17,0>>,<<18,0>>,<<41,0>>,<<45,0>>,<<83,0>>,<<46,0>>,<<47,0>>,<<48,0>>,<<49,0>>,<<50,0>>,<<98,0>>,<<99,0>>,<<51,0>>,<<20,0>>>>,
     <<<<37,0>>,<<12,0>>,<<97,0>>,<<1,0>>,<<2,0>>,<<3,0>>,<<4,0>>,<<5,0>>,<<6,0>>,<<7,0>>,<<8,0>>,<<9,0>>,<<15,0>>,<<16,0>>,<<17,0>>,<<18,0>>,<<83,0>>,<<98,0>>,<<99,0>>,<<20,0>>>>,
     <<<<37,0>>,<<12,0>>,<<1,0>>,<<2,0>>,<<3,0>>,<<4,0>>,<<5,0>>,<<6,0>>,<<7,0>>,<<8,0>>,<<9,0>>,<<10,0>>,<<15,0>>,<<16,0>>,<<17,0>>,<<18,0>>,<<83,0>>,<<98,0>>,<<99,0>>,<<20,0>>>>,
     <<<<37,0>>,<<12,0>>,<<1,0>>,<<2,0>>,<<3,0>>,<<4,0>>,<<5,0>>,<<6,0>>,<<7,0>>,<<8,0>>,<<9,0>>,<<10,0>>,<<15,0>>,<<16,0>>,<<17,0>>,<<18,0>>,<<83,0>>,<<98,0>>,<<99,0>>,<<20,0>>>>,
     <<<<37,0>>,<<12,0>>,<<1,0>>,<<2,0>>,<<3,0>>,<<4,0>>,<<5,0>>,<<6,0>>,<<7,0>>,<<8,0>>,<<9,0>>,<<10,0>>,<<15,0>>,<<16,0>>,<<17,0>>,<<18,0>>,<<83,0>>,<<98,0>>,<<99,0>>,<<20,0>>>>,
     <<<<38,0>>,<<12,0>>,<<1,0>>,<<2,0>>,<<3,0>>,<<4,0>>,<<5,0>>,<<6,0>>,<<7,0>>,<<8,0>>,<<15,0>>,<<16,0>>,<<17,0>>,<<18,0>>,<<41,0>>,<<45,0>>,<<83,0>>,<<46,0>>,<<47,0>>,<<48,0>>,<<49,0>>,<<85,0>>,<<98,0>>,<<99,0>>,<<51,0>>,<<20,0>>>>,
     <<<<38,0>>,<<12,0>>,<<1,0>>,<<2,0>>,<<3,0>>,<<4,0>>,<<5,0>>,<<6,0>>,<<7,0>>,<<8,0>>,<<15,0>>,<<16,0>>,<<17,0>>,<<18,0>>,<<41,0>>,<<45,0>>,<<83,0>>,<<46,0>>,<<47,0>>,<<48,0>>,<<137,0>>,<<98,0>>,<<99,0>>,<<51,0>>,<<20,0>>>>,
     <<<<38,0>>,<<12,0>>,<<1,0>>,<<2,0>>,<<3,0>>,<<4,0>>,<<5,0>>,<<6,0>>,<<7,0>>,<<8,0>>,<<15,0>>,<<16,0>>,<<17,0>>,<<18,0>>,<<41,0>>,<<45,0>>,<<83,0>>,<<46,0>>,<<47,0>>,<<48,0>>,<<49,0>>,<<85,0>>,<<98,0>>,<<99,0>>,<<51,0>>,<<20,0>>>>,
     <<<<37,0>>,<<12,0>>,<<1,0>>,<<2,0>>,<<3,0>>,<<4,0>>,<<5,0>>,<<6,0>>,<<7,0>>,<<8,0>>,<<9,0>>,<<10,0>>,<<15,0>>,<<16,0>>,<<17,0>>,<<18,0>>,<<83,0>>,<<98,0>>,<<99,0>>,<<20,0>>>>,
     <<<<37,0>>,<<12,0>>,<<1,0>>,<<2,0>>,<<3,0>>,<<4,0>>,<<5,0>>,<<6,0>>,<<7,0>>,<<8,0>>,<<9,0>>,<<10,0>>,<<15,0>>,<<16,0>>,<<17,0>>,<<18,0>>,<<83,0>>,<<98,0>>,<<99,0>>,<<20,0>>>>,
     <<<<37,0>>,<<12,0>>,<<1,0>>,<<2,0>>,<<3,0>>,<<4,0>>,<<5,0>>,<<6,0>>,<<7,0>>,<<8,0>>,<<9,0>>,<<10,0>>,<<15,0>>,<<16,0>>,<<17,0>>,<<18,0>>,<<83,0>>,<<98,0>>,<<99,0>>,<<20,0>>>>,
     <<<<38,0>>,<<12,0>>,<<1,0>>,<<2,0>>,<<3,0>>,<<4,0>>,<<5,0>>,<<6,0>>,<<7,0>>,<<8,0>>,<<15,0>>,<<16,0>>,<<17,0>>,<<18,0>>,<<41,0>>,<<45,0>>,<<83,0>>,<<46,0>>,<<47,0>>,<<48,0>>,<<49,0>>,<<50,0>>,<<98,0>>,<<99,0>>,<<51,0>>,<<20,0>>>>,
     <<<<37,0>>,<<12,0>>,<<1,0>>,<<2,0>>,<<3,0>>,<<4,0>>,<<5,0>>,<<6,0>>,<<7,0>>,<<8,0>>,<<9,0>>,<<10,0>>,<<15,0>>,<<16,0>>,<<17,0>>,<<18,0>>,<<83,0>>,<<98,0>>,<<99,0>>,<<20,0>>>>,
     <<<<12,0>>,<<1,0>>,<<2,0>>,<<3,0>>,<<4,0>>,<<5,0>>,<<6,0>>,<<7,0>>,<<8,0>>,<<9,0>>,<<10,0>>,<<15,0>>,<<16,0>>,<<17,0>>,<<18,0>>,<<83,0>>,<<98,0>>,<<99,0>>,<<20,0>>>> >>

\* const { Chess } = require('chess.js')
ChessJs(zeros) == [San |-> San, Legal |-> Legal, zeroCastling |-> zeros]

LegalAt(Chess, pos) == IF pos \in 1..Len(Chess.Legal) THEN Chess.Legal[pos] ELSE <<>>

\* new Chess()
NewChess == [pos |-> 1, history |-> <<>>]

\* board.moves(): the legal moves in Standard Algebraic Notation
Chess_moves(Chess, board) ==
  LET Sans(legal) == [i \in 1..Len(legal) |-> Chess.San[legal[i][1]]]
  IN Sans(LegalAt(Chess, board.pos))

RemoveFirst(s, c) ==
  LET hits == {i \in 1..Len(s) : s[i] = c}
  IN IF hits = {} THEN s
     ELSE LET i == CHOOSE x \in hits : \A y \in hits : x <= y
          IN Take(s, i - 1) \o Drop(s, i)

RECURSIVE DropAnnotations(_)
DropAnnotations(s) ==
  IF s # <<>> /\ s[Len(s)] \in {"?", "!"} THEN DropAnnotations(Take(s, Len(s) - 1)) ELSE s

\* the library's strippedSan: move.replace(/=/, '').replace(/[+#]?[?!]*$/, '')
StrippedSan(s) ==
  LET Strip(a) == IF a # <<>> /\ a[Len(a)] \in {"+", "#"} THEN Take(a, Len(a) - 1) ELSE a
  IN Strip(DropAnnotations(RemoveFirst(s, "=")))

\* the text the library's move parser compares with the legal moves
CleanMove(Chess, text) ==
  LET Zeros(clean) ==
        IF Chess.zeroCastling /\ clean = <<"0", "-", "0">> THEN <<"O", "-", "O">>
        ELSE IF Chess.zeroCastling /\ clean = <<"0", "-", "0", "-", "0">>
             THEN <<"O", "-", "O", "-", "O">>
             ELSE clean
  IN Zeros(StrippedSan(text))

\* the library's move parser: the index, in the legal moves of the position,
\* of the move that the text denotes, 0 when it denotes none.  A text denotes
\* a move when both agree once decorations are stripped.  (The parser's
\* other permissive forms all carry a from-square or drop the x of a
\* capture; no text tried within the bounds has either.)
MoveFromSan(Chess, pos, text) ==
  LET First(hits) == IF hits = {} THEN 0 ELSE CHOOSE i \in hits : \A j \in hits : i <= j
      Hits(legal, clean) ==
        {i \in 1..Len(legal) : StrippedSan(Chess.San[legal[i][1]]) = clean}
  IN First(Hits(LegalAt(Chess, pos), CleanMove(Chess, text)))

\* a variant: a library whose move() leaves a cleared board behind when it
\* throws
Chess_moveClearing(Chess, board, text) ==
  LET Play(legal, k) ==
        IF k = 0 THEN [ok |-> FALSE, board |-> NewChess]
        ELSE [ok |-> TRUE,
              board |-> [pos |-> legal[k][2],
                         history |-> Append(board.history, Chess.San[legal[k][1]])]]
  IN Play(LegalAt(Chess, board.pos), MoveFromSan(Chess, board.pos, text))

\* board.move(text): plays the move on the board, or throws and leaves the
\* board as it was
Chess_move(Chess, board, text) ==
  LET Play(legal, k) ==
        IF k = 0 THEN [ok |-> FALSE, board |-> board]
        ELSE [ok |-> TRUE,
              board |-> [pos |-> legal[k][2],
                         history |-> Append(board.history, Chess.San[legal[k][1]])]]
  IN Play(LegalAt(Chess, board.pos), MoveFromSan(Chess, board.pos, text))

\* board.pgn(): the movetext of the game so far
Chess_pgn(board) == board.history

\* testBoard.loadPgn(pgn): replays the movetext from the initial position
RECURSIVE Replay(_, _, _)
Replay(Chess, board, sans) ==
  LET Continue(r) ==
        IF r.ok THEN Replay(Chess, r.board, Tail(sans)) ELSE [ok |-> FALSE, board |-> board]
  IN IF sans = <<>> THEN [ok |-> TRUE, board |-> board]
     ELSE Continue(Chess_move(Chess, board, Head(sans)))

Chess_loadPgn(Chess, pgn) == Replay(Chess, NewChess, pgn)

\* validateMove(board, moveText)
validateMove(Chess, board, moveText) ==
  LET Outcome(moveNotation, r) ==
        IF r.ok
        THEN [valid |-> TRUE, move |-> moveNotation, corrected |-> FALSE,
              error |-> Undefined, board |-> r.board]
        ELSE [valid |-> FALSE, move |-> moveText, corrected |-> FALSE,
              error |-> "Invalid move", board |-> r.board]
      Try(moveNotation) == Outcome(moveNotation, Chess_move(Chess, board, moveNotation))
  IN Try(extractMoveNotation(moveText))

\* Step 2 of fuzzyMatchMove: the loop over the pattern candidates, from the
\* k-th on.  Each candidate is tried on a fresh board loaded from the pgn of
\* the real one; the first one the library accepts is played on the real
\* board.
RECURSIVE TryCandidates(_, _, _, _, _)
TryCandidates(Chess, board, moveNotation, candidates, k) ==
  LET Trial(testBoard) == testBoard.ok /\ Chess_move(Chess, testBoard.board, candidates[k]).ok
  IN IF k > Len(candidates) THEN [found |-> FALSE, candidate |-> Null, board |-> board]
     ELSE IF candidates[k] # moveNotation /\ Trial(Chess_loadPgn(Chess, Chess_pgn(board)))
          THEN [found |-> TRUE, candidate |-> candidates[k],
                board |-> Chess_move(Chess, board, candidates[k]).board]
          ELSE TryCandidates(Chess, board, moveNotation, candidates, k + 1)

\* a variant: the loop without its early exit, every legal move is compared
RECURSIVE LevenshteinScanToTheEnd(_, _, _, _, _)
LevenshteinScanToTheEnd(moveNotation, legalMoves, k, bestMatch, lowestDistance) ==
  LET Compare(dist) ==
        IF dist < lowestDistance /\ dist <= MAX_DISTANCE_THRESHOLD
        THEN LevenshteinScanToTheEnd(moveNotation, legalMoves, k + 1, legalMoves[k], dist)
        ELSE LevenshteinScanToTheEnd(moveNotation, legalMoves, k + 1, bestMatch,
                                     lowestDistance)
  IN IF k > Len(legalMoves)
     THEN [bestMatch |-> bestMatch, lowestDistance |-> lowestDistance, scanned |-> k - 1]
     ELSE Compare(Levenshtein(moveNotation, legalMoves[k]))

\* a variant: the loop without the threshold, the closest legal move wins
RECURSIVE LevenshteinScanAnyDistance(_, _, _, _, _)
LevenshteinScanAnyDistance(moveNotation, legalMoves, k, bestMatch, lowestDistance) ==
  LET Compare(dist) ==
        IF dist = 1
        THEN [bestMatch |-> legalMoves[k], lowestDistance |-> 1, scanned |-> k]
        ELSE IF dist < lowestDistance
             THEN LevenshteinScanAnyDistance(moveNotation, legalMoves, k + 1,
                                             legalMoves[k], dist)
             ELSE LevenshteinScanAnyDistance(moveNotation, legalMoves, k + 1, bestMatch,
                                             lowestDistance)
  IN IF k > Len(legalMoves)
     THEN [bestMatch |-> bestMatch, lowestDistance |-> lowestDistance, scanned |-> k - 1]
     ELSE Compare(Levenshtein(moveNotation, legalMoves[k]))

\* a variant: the test dist <= lowestDistance, the last closest move wins
RECURSIVE LevenshteinScanLastWins(_, _, _, _, _)
LevenshteinScanLastWins(moveNotation, legalMoves, k, bestMatch, lowestDistance) ==
  LET Compare(dist) ==
        IF dist = 1
        THEN [bestMatch |-> legalMoves[k], lowestDistance |-> 1, scanned |-> k]
        ELSE IF dist <= lowestDistance /\ dist <= MAX_DISTANCE_THRESHOLD
             THEN LevenshteinScanLastWins(moveNotation, legalMoves, k + 1, legalMoves[k],
                                          dist)
             ELSE LevenshteinScanLastWins(moveNotation, legalMoves, k + 1, bestMatch,
                                          lowestDistance)
  IN IF k > Len(legalMoves)
     THEN [bestMatch |-> bestMatch, lowestDistance |-> lowestDistance, scanned |-> k - 1]
     ELSE Compare(Levenshtein(moveNotation, legalMoves[k]))

\* Step 3 of fuzzyMatchMove: the loop over the legal moves, from the k-th on.
\* scanned counts the legal moves compared with the token.
RECURSIVE LevenshteinScan(_, _, _, _, _)
LevenshteinScan(moveNotation, legalMoves, k, bestMatch, lowestDistance) ==
  LET Compare(dist) ==
        IF dist = 1
        THEN [bestMatch |-> legalMoves[k], lowestDistance |-> 1, scanned |-> k]
        ELSE IF dist < lowestDistance /\ dist <= MAX_DISTANCE_THRESHOLD
             THEN LevenshteinScan(moveNotation, legalMoves, k + 1, legalMoves[k], dist)
             ELSE LevenshteinScan(moveNotation, legalMoves, k + 1, bestMatch,
                                  lowestDistance)
  IN IF k > Len(legalMoves)
     THEN [bestMatch |-> bestMatch, lowestDistance |-> lowestDistance, scanned |-> k - 1]
     ELSE Compare(Levenshtein(moveNotation, legalMoves[k]))

\* the object fuzzyMatchMove returns when it found no move; board is the
\* board as the call leaves it, scanned the number of legal moves compared
NoMatch(board, moveNotation, originalMove, errorText, scanned) ==
  [valid |-> FALSE, move |-> moveNotation, corrected |-> FALSE,
   original |-> originalMove, correction |-> Absent, method |-> Undefined,
   distance |-> Absent, error |-> errorText, board |-> board, scanned |-> scanned]

\* a variant: the best match is played on the fresh board only
ApplyBestMatchOnTestBoard(Chess, board, moveNotation, originalMove, scan) ==
  LET Trial(testBoard) == testBoard.ok /\ Chess_move(Chess, testBoard.board, scan.bestMatch).ok
  IN IF scan.bestMatch # Null /\ Trial(Chess_loadPgn(Chess, Chess_pgn(board)))
     THEN [valid |-> TRUE, move |-> scan.bestMatch, corrected |-> TRUE,
           original |-> originalMove,
           correction |-> << <<moveNotation, scan.bestMatch>> >>,
           method |-> "levenshtein", distance |-> <<scan.lowestDistance>>,
           error |-> Undefined, board |-> board, scanned |-> scan.scanned]
     ELSE NoMatch(board, moveNotation, originalMove,
                  "No valid move found after fuzzy matching", scan.scanned)

\* Step 4 of fuzzyMatchMove: the best match is tried on a fresh board loaded
\* from the pgn of the real one and, if the library accepts it, played on
\* the real board
ApplyBestMatch(Chess, board, moveNotation, originalMove, scan) ==
  LET Trial(testBoard) == testBoard.ok /\ Chess_move(Chess, testBoard.board, scan.bestMatch).ok
  IN IF scan.bestMatch # Null /\ Trial(Chess_loadPgn(Chess, Chess_pgn(board)))
     THEN [valid |-> TRUE, move |-> scan.bestMatch, corrected |-> TRUE,
           original |-> originalMove,
           correction |-> << <<moveNotation, scan.bestMatch>> >>,
           method |-> "levenshtein", distance |-> <<scan.lowestDistance>>,
           error |-> Undefined,
           board |-> Chess_move(Chess, board, scan.bestMatch).board,
           scanned |-> scan.scanned]
     ELSE NoMatch(board, moveNotation, originalMove,
                  "No valid move found after fuzzy matching", scan.scanned)

(***************************************************************************)
(* Inputs: the token lists handed to the correction loop.  A list is a     *)
(* prefix of a recorded game followed by at most MaxTail free tokens.      *)
(***************************************************************************)
\* 1. e4 e5 2. Nf3 Nc6 3. Bc4 Bc5, after which White may castle kingside
MainLine ==
  << <<"e", "4">>, <<"e", "5">>, <<"N", "f", "3">>, <<"N", "c", "6">>,
     <<"B", "c", "4">>, <<"B", "c", "5">> >>

\* 1. f3 e5 2. g4 Qh4#, written without the mate sign: White has no move left
MateLine ==
  << <<"f", "3">>, <<"e", "5">>, <<"g", "4">>, <<"Q", "h", "4">> >>

Lines == {MainLine, MateLine}

Tokens ==
  { <<"e", "H">>, <<"e", "5">>, <<"o", "-", "o">>, <<"0", "-", "0">>,
    <<"Q", "x", "H", "7">>, <<"1", ".", "e", "4">>, <<"1", ".">> }

Tails == UNION {[1..n -> Tokens] : n \in 0..MaxTail}

TokenLists ==
  UNION { {Take(line, k) \o tail : k \in 0..Len(line), tail \in Tails} : line \in Lines }

(***************************************************************************)
(* correctOCRErrors: the state of one run.  A pass of its for loop is the  *)
(* call of fuzzyMatchMove, taken stage by stage, and the bookkeeping of    *)
(* what the call returned.                                                 *)
(***************************************************************************)
VARIABLES
  zeroCastling,    \* the installed library reads 0-0 as castling
  originalMoves,   \* the tokens, as extractMovesFromBlocks returned them
  board,           \* the Chess instance of the run
  correctedMoves,
  corrections,
  stats,
  processed,       \* how many tokens the for loop has finished with
  moveNotation,    \* fuzzyMatchMove: the normalized token
  result,          \* what the fuzzyMatchMove call returned
  entry,           \* the board as the running fuzzyMatchMove call found it
  calls,           \* every finished call: its token, boards and result
  pc               \* "loop", "pattern", "levenshtein", "record" or "done"

VARIABLES
  blocks,          \* the argument of correctOCRErrors
  moves,           \* extractMovesFromBlocks: the tokens found so far
  attempted,       \* extractMovesFromBlocks: the stages run so far
  returned         \* what the earlier runs on the same argument returned

\* the state of the convert page (app/convert/page.tsx)
VARIABLES
  status,             \* 'idle', 'validated', 'completed', 'error'
  movesData,          \* the pairs of the moves table
  invalidMovesCount,
  pgnOutput,
  error

pageVars == <<status, movesData, invalidMovesCount, pgnOutput, error>>

\* the S3 bucket and the trigger function (S3Triggerc8c93dc4/src/index.js)
VARIABLES
  handlerVersion,  \* which copy of the handler is deployed
  bucket,          \* the objects of the bucket: key and content
  events,          \* the S3 events not yet delivered to the function
  invocation,      \* the event the running handler was invoked with, if any
  textractCalls,   \* the keys analyzeDocument was called with
  responses        \* what the finished invocations returned or threw

lambdaVars == <<handlerVersion, bucket, events, invocation, textractCalls, responses>>

\* the polling of the convert page (app/convert/page.tsx)
VARIABLES
  pollingCancelledRef,  \* pollingCancelledRef.current
  timeoutRef,           \* timeoutRef.current: the timer it holds, if any
  progress,
  sessions              \* the calls of processFile, each with its timers

sessionVars == <<pollingCancelledRef, timeoutRef, progress, sessions>>

vars == <<zeroCastling, originalMoves, board, correctedMoves, corrections, stats, processed,
          moveNotation, result, entry, calls, pc, blocks, moves, attempted, returned,
          status, movesData, invalidMovesCount, pgnOutput, error,
          handlerVersion, bucket, events, invocation, textractCalls, responses,
          pollingCancelledRef, timeoutRef, progress, sessions>>

\* a run followed from its token list on: the blocks that gave the tokens are
\* left open, the extraction is over
AfterExtraction ==
  /\ blocks = [type |-> "object", items |-> <<>>]
  /\ moves = originalMoves
  /\ attempted = <<>>
  /\ returned = <<>>

\* the page before a score sheet is uploaded
PageIdle ==
  /\ status = "idle"
  /\ movesData = <<>>
  /\ invalidMovesCount = 0
  /\ pgnOutput = <<>>
  /\ error = Null

\* no object in the bucket, no event, no invocation
NoUpload ==
  /\ handlerVersion = "index.js"
  /\ bucket = {}
  /\ events = <<>>
  /\ invocation = <<>>
  /\ textractCalls = <<>>
  /\ responses = <<>>

\* no call of processFile yet
NoSession ==
  /\ pollingCancelledRef = FALSE
  /\ timeoutRef = <<>>
  /\ progress = 0
  /\ sessions = <<>>

Init ==
  /\ zeroCastling \in BOOLEAN
  /\ originalMoves \in TokenLists
  /\ board = NewChess
  /\ correctedMoves = <<>>
  /\ corrections = <<>>
  /\ stats = [total |-> Len(originalMoves), valid |-> 0, corrected |-> 0, invalid |-> 0]
  /\ processed = 0
  /\ moveNotation = <<>>
  /\ result = <<>>
  /\ entry = NewChess
  /\ calls = <<>>
  /\ pc = "loop"
  /\ AfterExtraction
  /\ PageIdle
  /\ NoUpload
  /\ NoSession

\* the token the for loop is at
originalMove == originalMoves[processed + 1]

\* what fuzzyMatchMove returns when the direct validation accepted the token;
\* the fields it leaves out are undefined
DirectMatch(directResult, token) ==
  [valid |-> TRUE, move |-> directResult.move, corrected |-> FALSE,
   original |-> token, correction |-> Absent, method |-> Undefined,
   distance |-> Absent, error |-> Undefined, scanned |-> 0]

\* what fuzzyMatchMove returns when a pattern candidate was accepted
PatternMatch(notation, candidate, token) ==
  [valid |-> TRUE, move |-> candidate, corrected |-> TRUE, original |-> token,
   correction |-> << <<notation, candidate>> >>, method |-> "pattern-based",
   distance |-> Absent, error |-> Undefined, scanned |-> 0]

\* fuzzyMatchMove, Step 1: the token is normalized and validated as it is
DirectValidation ==
  /\ pc = "loop"
  /\ processed < Len(originalMoves)
  /\ entry' = board
  /\ moveNotation' = extractMoveNotation(originalMove)
  /\ \E directResult \in {validateMove(ChessJs(zeroCastling), board, extractMoveNotation(originalMove))} :
       /\ board' = directResult.board
       /\ IF directResult.valid
          THEN /\ result' = DirectMatch(directResult, originalMove)
               /\ pc' = "record"
          ELSE /\ pc' = "pattern"
               /\ UNCHANGED result
  /\ UNCHANGED <<blocks, moves, attempted, returned>>
  /\ UNCHANGED pageVars
  /\ UNCHANGED lambdaVars
  /\ UNCHANGED sessionVars
  /\ UNCHANGED <<zeroCastling, originalMoves, correctedMoves, corrections, stats, processed, calls>>

\* fuzzyMatchMove, Step 2: the pattern candidates
PatternStage ==
  /\ pc = "pattern"
  /\ \E pattern \in {TryCandidates(ChessJs(zeroCastling), board, moveNotation,
                                   generateFuzzyMatches(moveNotation), 1)} :
       IF pattern.found
       THEN /\ result' = PatternMatch(moveNotation, pattern.candidate, originalMove)
            /\ board' = pattern.board
            /\ pc' = "record"
       ELSE /\ pc' = "levenshtein"
            /\ UNCHANGED <<result, board>>
  /\ UNCHANGED <<blocks, moves, attempted, returned>>
  /\ UNCHANGED pageVars
  /\ UNCHANGED lambdaVars
  /\ UNCHANGED sessionVars
  /\ UNCHANGED <<zeroCastling, originalMoves, correctedMoves, corrections, stats, processed,
                 moveNotation, entry, calls>>

\* a variant: no test of legalMoves.length, the loop runs over the empty list
LevenshteinStageWithoutLengthTest ==
  /\ pc = "levenshtein"
  /\ \E legalMoves \in {Chess_moves(ChessJs(zeroCastling), board)} :
       \E r \in {ApplyBestMatch(ChessJs(zeroCastling), board, moveNotation, originalMove,
                                LevenshteinScan(moveNotation, legalMoves, 1,
                                                Null, LowestDistanceInit))} :
         /\ result' = [f \in DOMAIN r \ {"board"} |-> r[f]]
         /\ board' = r.board
  /\ pc' = "record"
  /\ UNCHANGED <<blocks, moves, attempted, returned>>
  /\ UNCHANGED pageVars
  /\ UNCHANGED lambdaVars
  /\ UNCHANGED sessionVars
  /\ UNCHANGED <<zeroCastling, originalMoves, correctedMoves, corrections, stats, processed,
                 moveNotation, entry, calls>>

\* fuzzyMatchMove, Steps 3 and 4: the closest legal move
LevenshteinStage ==
  /\ pc = "levenshtein"
  /\ \E legalMoves \in {Chess_moves(ChessJs(zeroCastling), board)} :
       \E r \in {IF Len(legalMoves) = 0
                  THEN NoMatch(board, moveNotation, originalMove,
                               "No legal moves available", 0)
                  ELSE ApplyBestMatch(ChessJs(zeroCastling), board, moveNotation, originalMove,
                                      LevenshteinScan(moveNotation, legalMoves, 1,
                                                      Null, LowestDistanceInit))} :
         /\ result' = [f \in DOMAIN r \ {"board"} |-> r[f]]
         /\ board' = r.board
  /\ pc' = "record"
  /\ UNCHANGED <<blocks, moves, attempted, returned>>
  /\ UNCHANGED pageVars
  /\ UNCHANGED lambdaVars
  /\ UNCHANGED sessionVars
  /\ UNCHANGED <<zeroCastling, originalMoves, correctedMoves, corrections, stats, processed,
                 moveNotation, entry, calls>>

\* a variant: the move is pushed in the valid branch only
PushMoveIfValid(list, r) == IF r.valid THEN Append(list, r.move) ELSE list

\* correctOCRErrors, the loop body: correctedMoves.push(result.move), in
\* either branch
PushMove(list, r) == Append(list, r.move)

\* a variant: a record is pushed for every token
PushCorrectionAlways(records, r) ==
  IF r.valid
  THEN Append(records, [original |-> r.original, corrected |-> r.move,
                        correction |-> r.correction, error |-> Undefined])
  ELSE Append(records, [original |-> r.original, corrected |-> Null,
                        correction |-> Absent,
                        error |-> IF r.error # Undefined THEN r.error
                                  ELSE "Invalid move"])

\* correctOCRErrors, the loop body: corrections.push(...)
PushCorrection(records, r) ==
  IF r.valid
  THEN IF r.corrected
       THEN Append(records, [original |-> r.original, corrected |-> r.move,
                             correction |-> r.correction, error |-> Undefined])
       ELSE records
  ELSE Append(records, [original |-> r.original, corrected |-> Null,
                        correction |-> Absent,
                        error |-> IF r.error # Undefined THEN r.error
                                  ELSE "Invalid move"])

\* a variant: a corrected move is counted as valid as well
CountCorrectedAsValid(counters, r) ==
  IF r.valid
  THEN IF r.corrected
       THEN [counters EXCEPT !.corrected = @ + 1, !.valid = @ + 1]
       ELSE [counters EXCEPT !.valid = @ + 1]
  ELSE [counters EXCEPT !.invalid = @ + 1]

\* correctOCRErrors, the loop body: the counter the result increments
Count(counters, r) ==
  IF r.valid
  THEN IF r.corrected
       THEN [counters EXCEPT !.corrected = @ + 1]
       ELSE [counters EXCEPT !.valid = @ + 1]
  ELSE [counters EXCEPT !.invalid = @ + 1]

\* a variant: an invalid result ends the loop
RecordStoppingAtInvalid ==
  /\ pc = "record"
  /\ correctedMoves' = PushMove(correctedMoves, result)
  /\ corrections' = PushCorrection(corrections, result)
  /\ stats' = Count(stats, result)
  /\ calls' = Append(calls, [token |-> originalMove, moveNotation |-> moveNotation,
                             before |-> entry, after |-> board, result |-> result])
  /\ processed' = processed + 1
  /\ pc' = IF result.valid THEN "loop" ELSE "done"
  /\ UNCHANGED <<blocks, moves, attempted, returned>>
  /\ UNCHANGED pageVars
  /\ UNCHANGED lambdaVars
  /\ UNCHANGED sessionVars
  /\ UNCHANGED <<zeroCastling, originalMoves, board, moveNotation, result, entry>>

\* correctOCRErrors: the body of the for loop after the call
Record ==
  /\ pc = "record"
  /\ correctedMoves' = PushMove(correctedMoves, result)
  /\ corrections' = PushCorrection(corrections, result)
  /\ stats' = Count(stats, result)
  /\ calls' = Append(calls, [token |-> originalMove, moveNotation |-> moveNotation,
                             before |-> entry, after |-> board, result |-> result])
  /\ processed' = processed + 1
  /\ pc' = "loop"
  /\ UNCHANGED <<blocks, moves, attempted, returned>>
  /\ UNCHANGED pageVars
  /\ UNCHANGED lambdaVars
  /\ UNCHANGED sessionVars
  /\ UNCHANGED <<zeroCastling, originalMoves, board, moveNotation, result, entry>>

\* the loop is over: return { originalMoves, correctedMoves, corrections, stats }
Return ==
  /\ pc = "loop"
  /\ processed = Len(originalMoves)
  /\ pc' = "done"
  /\ UNCHANGED <<blocks, moves, attempted, returned>>
  /\ UNCHANGED pageVars
  /\ UNCHANGED lambdaVars
  /\ UNCHANGED sessionVars
  /\ UNCHANGED <<zeroCastling, originalMoves, board, correctedMoves, corrections, stats, processed,
                 moveNotation, result, entry, calls>>

Next == DirectValidation \/ PatternStage \/ LevenshteinStage \/ Record \/ Return

Spec == Init /\ [][Next]_vars

\* no run leaves the tabulated fragment of the game tree
OnTable == board.pos \in 1..Len(Legal)

(***************************************************************************)
(* Properties of correctOCRErrors.  calls holds one entry per finished     *)
(* call of fuzzyMatchMove, in the order of the tokens.                     *)
(***************************************************************************)
\* a call has just been recorded, the last of calls; every call is that
\* call once
Recorded == pc = "loop" /\ calls # <<>>
Last == calls[Len(calls)]

Exact(call) == call.result.valid /\ ~call.result.corrected
Repaired(call) == call.result.valid /\ call.result.corrected
Rejected(call) == ~call.result.valid

HowMany(Kind(_)) == Cardinality({i \in 1..Len(calls) : Kind(calls[i])})

\* the strings a call may leave in correctedMoves: the normalized token, one
\* of its pattern candidates, or a legal move of the position it met
Outcomes(call) ==
  {extractMoveNotation(call.token), extractMoveNotation(extractMoveNotation(call.token))}
    \cup Range(generateFuzzyMatches(extractMoveNotation(call.token)))
    \cup Range(Chess_moves(ChessJs(zeroCastling), call.before))

\* C1: correctedMoves grows by one entry per token, in the order of the
\* tokens, and the i-th entry is what the call for the i-th token returned;
\* when correctOCRErrors returns, correctedMoves is as long as originalMoves,
\* the empty list included.
C1_LengthAndOrder ==
  /\ Len(correctedMoves) = Len(calls)
  /\ Len(calls) <= Len(originalMoves)
  /\ pc = "done" => Len(correctedMoves) = Len(originalMoves)
  /\ \A i \in 1..Len(calls) :
       /\ calls[i].token = originalMoves[i]
       /\ correctedMoves[i] = calls[i].result.move
  /\ Recorded => correctedMoves[Len(correctedMoves)] \in Outcomes(Last)

\* a run over at least three tokens has returned, one of them rejected and
\* one repaired
C1_Witness ==
  /\ pc = "done"
  /\ Len(originalMoves) >= 3
  /\ Len(correctedMoves) = Len(originalMoves)
  /\ \E i, j \in 1..Len(calls) : i < j /\ Rejected(calls[i]) /\ Repaired(calls[j])

\* C2: stats.total is the number of tokens; after every token the three
\* counters sum to the number of tokens processed, each counting the tokens
\* of its own kind, so that a token increments exactly one of them; when
\* correctOCRErrors returns, they sum to stats.total.
C2_StatsSum ==
  /\ stats.total = Len(originalMoves)
  /\ stats.valid + stats.corrected + stats.invalid = processed
  /\ processed = Len(calls)
  /\ stats.valid = HowMany(Exact)
  /\ stats.corrected = HowMany(Repaired)
  /\ stats.invalid = HowMany(Rejected)
  /\ pc = "done" => stats.valid + stats.corrected + stats.invalid = stats.total

\* a run has returned with every counter above zero
C2_Witness ==
  /\ pc = "done"
  /\ stats.valid > 0 /\ stats.corrected > 0 /\ stats.invalid > 0
  /\ stats.valid + stats.corrected + stats.invalid = stats.total

Accepts(b, text) == Chess_move(ChessJs(zeroCastling), b, text).ok

\* the board the library reaches when it plays the tokens as they are
\* written, one after the other, from the initial position
PlayedAsWritten(tokens) == Replay(ChessJs(zeroCastling), NewChess, tokens)

SingleSubstitutions(notation) == Tail(AddSubstitutions(<<notation>>, notation, 1))

\* the first text of the sequence the library accepts on the board, Null if
\* it accepts none
FirstAccepted(b, texts) ==
  LET ok == {k \in 1..Len(texts) : Accepts(b, texts[k])}
  IN IF ok = {} THEN Null ELSE texts[CHOOSE k \in ok : \A j \in ok : k <= j]

\* C5: if the library rejects the normalized token and accepts it with one
\* character replaced by its counterpart in the confusion table, the token is
\* recorded as corrected to that candidate (the first such, in the order the
\* candidates are tried) by the pattern method, the board advances by that
\* move and the next token meets the advanced board; the tokens eH, e5 give
\* the moves e4, e5 and the stats total 2, valid 1, corrected 1, invalid 0.
C5_PatternCorrection ==
  /\ Recorded =>
       LET Fixed(call, candidate) ==
             (~Accepts(call.before, extractMoveNotation(call.moveNotation))
                /\ candidate # Null) =>
               /\ Repaired(call)
               /\ call.result.method = "pattern-based"
               /\ call.result.move = candidate
               /\ correctedMoves[Len(correctedMoves)] = candidate
               /\ call.after = Chess_move(ChessJs(zeroCastling), call.before, candidate).board
               /\ call.after # call.before
               /\ board = call.after
       IN Fixed(Last, FirstAccepted(Last.before, SingleSubstitutions(Last.moveNotation)))
  /\ \A i \in 2..Len(calls) : calls[i].before = calls[i - 1].after
  /\ (pc = "done" /\ originalMoves = << <<"e", "H">>, <<"e", "5">> >>) =>
       /\ correctedMoves = << <<"e", "4">>, <<"e", "5">> >>
       /\ stats = [total |-> 2, valid |-> 1, corrected |-> 1, invalid |-> 0]

\* the run over the tokens eH, e5 has returned, eH repaired by a pattern
C5_Witness ==
  /\ pc = "done"
  /\ originalMoves = << <<"e", "H">>, <<"e", "5">> >>
  /\ calls[1].result.method = "pattern-based"
  /\ Exact(calls[2])
  /\ calls[2].before = calls[1].after

\* the library lists kingside castling among the legal moves of the board
KingsideCastlingLegal(b) ==
  <<"O", "-", "O">> \in Range(Chess_moves(ChessJs(zeroCastling), b))

\* C6, as the specification states it: on a board where kingside castling is
\* legal the token o-o is corrected to 0-0 by the pattern method, and never
\* by the Levenshtein method.
C6_CastlingByPattern ==
  Recorded =>
    ((Last.moveNotation = <<"o", "-", "o">> /\ KingsideCastlingLegal(Last.before)) =>
       /\ Repaired(Last)
       /\ Last.result.method = "pattern-based"
       /\ Last.result.move = <<"0", "-", "0">>)

\* the token o-o met a board where kingside castling is legal, with a library
\* that writes castling with the letter O only, and was repaired by distance
C6_Witness ==
  /\ Recorded
  /\ ~zeroCastling
  /\ Last.moveNotation = <<"o", "-", "o">>
  /\ KingsideCastlingLegal(Last.before)
  /\ Last.result.method = "levenshtein"
  /\ Last.result.distance = <<2>>
  /\ Last.result.move = <<"O", "-", "O">>

\* the call went on to the Levenshtein stage
ReachedLevenshtein(call) == ~Exact(call) /\ call.result.method # "pattern-based"

\* the places, in the list of legal moves, of the moves at distance 1
AtDistanceOne(notation, legalMoves) ==
  {k \in 1..Len(legalMoves) : Levenshtein(notation, legalMoves[k]) = 1}

Far(b, notation) ==
  LET Each(legalMoves) ==
        \A k \in 1..Len(legalMoves) : Levenshtein(notation, legalMoves[k]) >= 3
  IN Each(Chess_moves(ChessJs(zeroCastling), b))

\* the direct validation and every pattern candidate fail on the board
NothingAccepted(b, notation) ==
  /\ ~Accepts(b, extractMoveNotation(notation))
  /\ FirstAccepted(b, generateFuzzyMatches(notation)) = Null

\* C8: when neither the token nor a pattern candidate of it is accepted and
\* every legal move is at distance 3 or more from the normalized token, the
\* pass of the loop for it appends the normalized token to correctedMoves,
\* appends a record with corrected null, increments stats.invalid alone, and
\* leaves the board as the call found it.
C8_ThresholdRejection ==
  [][(pc = "record" /\ NothingAccepted(entry, moveNotation) /\ Far(entry, moveNotation)) =>
       /\ correctedMoves' = Append(correctedMoves, extractMoveNotation(originalMove))
       /\ Len(corrections') = Len(corrections) + 1
       /\ corrections'[Len(corrections')].original = originalMove
       /\ corrections'[Len(corrections')].corrected = Null
       /\ stats' = [stats EXCEPT !.invalid = @ + 1]
       /\ board = entry
       /\ board' = entry]_vars

\* the token QxH7 was rejected on a board with legal moves, all of them at
\* distance 3 or more, after the board had advanced
C8_Witness ==
  /\ Recorded
  /\ Last.token = <<"Q", "x", "H", "7">>
  /\ Rejected(Last)
  /\ Last.result.error = "No valid move found after fuzzy matching"
  /\ Last.result.scanned > 0
  /\ Far(Last.before, Last.moveNotation)
  /\ Last.before # NewChess
  /\ Last.after = Last.before
  /\ stats.invalid >= 1

\* C9: a token recorded invalid leaves the board as it found it, so that the
\* token after it meets the board the token before it left; the failed
\* direct validation and the failed pattern trials leave the board as the
\* call found it, and so does a Levenshtein stage that finds no move.
C9_NoCascade ==
  /\ pc \in {"pattern", "levenshtein"} => board = entry
  /\ Recorded => board = Last.after
  /\ \A i \in 1..Len(calls) :
       /\ calls[i].before = (IF i = 1 THEN NewChess ELSE calls[i - 1].after)
       /\ Rejected(calls[i]) =>
            /\ calls[i].after = calls[i].before
            /\ i < Len(calls) => calls[i + 1].before = calls[i].before

\* a token was rejected after a scan of the legal moves, between a token
\* that had advanced the board and a token accepted on that same board
C9_Witness ==
  \E i \in 2..(Len(calls) - 1) :
    /\ Rejected(calls[i])
    /\ calls[i].result.scanned > 0
    /\ calls[i - 1].after # calls[i - 1].before
    /\ calls[i + 1].before = calls[i - 1].after
    /\ calls[i + 1].result.valid

\* the places of the accepted tokens, in the order of the tokens
AcceptedPlaces ==
  LET Accepted(i) == calls[i].result.valid
  IN SelectSeq([i \in 1..Len(calls) |-> i], Accepted)

\* C10: after any number of tokens the history of the board holds, in
\* order, one move per token counted valid or corrected and none for the
\* others: the move that the token's entry of correctedMoves denotes on the
\* board the token met, where it was legal.  (The history holds the library's
\* own text of the move: Qh4# for the entry Qh4, O-O for the entry 0-0.)
C10_HistoryIsAcceptedMoves ==
  pc \in {"loop", "done"} =>
    LET Played(k, call, text, legal) ==
          LET m == MoveFromSan(ChessJs(zeroCastling), call.before.pos, text)
          IN /\ m # 0
             /\ Len(call.before.history) = k - 1
             /\ board.history[k] = San[legal[m][1]]
             /\ call.after = [pos |-> legal[m][2],
                              history |-> Append(call.before.history, San[legal[m][1]])]
        Each(places) ==
          /\ Len(board.history) = Len(places)
          /\ \A k \in 1..Len(places) :
               Played(k, calls[places[k]], correctedMoves[places[k]],
                      LegalAt(ChessJs(zeroCastling), calls[places[k]].before.pos))
    IN Each(AcceptedPlaces)

\* a run has returned with three or more moves played, a token rejected and,
\* after it, a token repaired by distance
C10_Witness ==
  /\ pc = "done"
  /\ Len(board.history) >= 3
  /\ Len(board.history) < Len(originalMoves)
  /\ \E i, j \in 1..Len(calls) :
       i < j /\ Rejected(calls[i]) /\ calls[j].result.method = "levenshtein"

\* the distance of the text from each legal move, in the order of the list
Distances(notation, legalMoves) ==
  [k \in 1..Len(legalMoves) |-> Levenshtein(notation, legalMoves[k])]

\* the smallest of the distances
Minimum(dist) == CHOOSE d \in Range(dist) : \A k \in 1..Len(dist) : d <= dist[k]

\* the first place of the distance in the list
FirstAt(dist, d) ==
  CHOOSE k \in 1..Len(dist) : dist[k] = d /\ \A j \in 1..(k - 1) : dist[j] # d

\* C12: a move the Levenshtein stage accepts is the first, in the order the
\* library lists the legal moves, of those at the smallest distance from the
\* normalized token, and that distance is at most 2; when the smallest
\* distance is more than 2 the token is recorded invalid.
C12_FirstAtMinimum ==
  Recorded =>
    LET Judge(call, legalMoves, dist) ==
          (ReachedLevenshtein(call) /\ legalMoves # <<>>) =>
            /\ call.result.method = "levenshtein" =>
                 /\ Minimum(dist) <= MAX_DISTANCE_THRESHOLD
                 /\ call.result.distance = <<Minimum(dist)>>
                 /\ call.result.move = legalMoves[FirstAt(dist, Minimum(dist))]
                 /\ Repaired(call)
            /\ Minimum(dist) > MAX_DISTANCE_THRESHOLD =>
                 /\ Rejected(call)
                 /\ call.result.method = Undefined
                 /\ call.after = call.before
        At(call, legalMoves) ==
          Judge(call, legalMoves, Distances(call.moveNotation, legalMoves))
    IN At(Last, Chess_moves(ChessJs(zeroCastling), Last.before))

\* a token was repaired at distance 2 on a board with several legal moves at
\* that distance and none closer, the move taken being the first of them
C12_Witness ==
  /\ Recorded
  /\ Last.result.method = "levenshtein"
  /\ Last.result.distance = <<2>>
  /\ LET Tie(legalMoves, dist) ==
           /\ Minimum(dist) = 2
           /\ Cardinality({k \in 1..Len(dist) : dist[k] = 2}) >= 2
           /\ Last.result.move = legalMoves[FirstAt(dist, 2)]
         At(legalMoves) == Tie(legalMoves, Distances(Last.moveNotation, legalMoves))
     IN At(Chess_moves(ChessJs(zeroCastling), Last.before))

\* correctOCRErrors is one synchronous function: once called it runs its
\* statements to the end, no step waits for anything.  Each step is taken
\* when it stays possible: weak fairness of every action.  For the three
\* stages of fuzzyMatchMove the condition is written out, with the stage's
\* guard where WF_ has ENABLED; Stepping states that the two agree.
FairSpec ==
  /\ Spec
  /\ WF_vars(Record)
  /\ WF_vars(Return)
  /\ []<>~(pc = "loop" /\ processed < Len(originalMoves)) \/ []<><<DirectValidation>>_vars
  /\ []<>(pc # "pattern") \/ []<><<PatternStage>>_vars
  /\ []<>(pc # "levenshtein") \/ []<><<LevenshteinStage>>_vars

\* the statement the run stands at can be executed: the oracle's answer and
\* the stage's result are defined, whatever they are
Stepping ==
  \/ /\ pc = "loop"
     /\ processed < Len(originalMoves)
     /\ validateMove(ChessJs(zeroCastling), board, originalMove).valid \in BOOLEAN
  \/ /\ pc = "loop"
     /\ processed = Len(originalMoves)
  \/ /\ pc = "pattern"
     /\ processed < Len(originalMoves)
     /\ TryCandidates(ChessJs(zeroCastling), board, moveNotation,
                      generateFuzzyMatches(moveNotation), 1).found \in BOOLEAN
  \/ /\ pc = "levenshtein"
     /\ processed < Len(originalMoves)
     /\ LET legalMoves == Chess_moves(ChessJs(zeroCastling), board)
        IN \/ Len(legalMoves) = 0
           \/ ApplyBestMatch(ChessJs(zeroCastling), board, moveNotation, originalMove,
                             LevenshteinScan(moveNotation, legalMoves, 1, Null,
                                             LowestDistanceInit)).valid \in BOOLEAN
  \/ /\ pc = "record"
     /\ processed < Len(originalMoves)
     /\ result.valid \in BOOLEAN

\* C14: every run of correctOCRErrors reaches its return statement, with
\* every token processed and given an outcome; recording a rejected token
\* counts it invalid and hands the loop its next token, and the run never
\* ends anywhere but at the return.
C14_Terminates ==
  /\ <>(pc = "done")
  /\ [](pc = "done" =>
          /\ processed = Len(originalMoves)
          /\ Len(calls) = Len(originalMoves)
          /\ Len(correctedMoves) = Len(originalMoves)
          /\ stats.valid + stats.corrected + stats.invalid = Len(originalMoves))
  /\ [][(pc = "record" /\ ~result.valid) =>
          /\ pc' = "loop"
          /\ processed' = processed + 1
          /\ stats'.invalid = stats.invalid + 1
          /\ Rejected(calls'[Len(calls')])]_vars
  /\ [](pc # "done" => Stepping)

\* a run has returned after a token was rejected by every stage and the tokens
\* after it went through the loop
C14_Witness ==
  /\ pc = "done"
  /\ Len(calls) >= 2
  /\ Rejected(calls[1])
  /\ calls[1].result.error = "No valid move found after fuzzy matching"
  /\ processed = Len(originalMoves)

\* the position has no legal move: checkmate or stalemate
Terminal(b) == LegalAt(ChessJs(zeroCastling), b.pos) = <<>>

\* C15: a token met on a position without legal moves is recorded invalid
\* with the error 'No legal moves available', which is not the error of a
\* token no legal move is close to; the position stays as it was, and the
\* tokens after it are processed, each with its own record: the run returns
\* with one call per token.
C15_NoLegalMoves ==
  /\ \A i \in 1..Len(calls) :
       Terminal(calls[i].before) =>
         /\ Rejected(calls[i])
         /\ calls[i].result.error = "No legal moves available"
         /\ calls[i].result.error # "No valid move found after fuzzy matching"
         /\ calls[i].result.move = calls[i].moveNotation
         /\ calls[i].after = calls[i].before
         /\ correctedMoves[i] = calls[i].moveNotation
  /\ (Recorded /\ Terminal(Last.before)) =>
       /\ board = Last.before
       /\ corrections[Len(corrections)] =
            [original |-> Last.token, corrected |-> Null, correction |-> Absent,
             error |-> "No legal moves available"]
  /\ (pc = "done" /\ Terminal(board)) =>
       /\ Len(calls) = Len(originalMoves)
       /\ stats.valid + stats.corrected + stats.invalid = stats.total

\* the run has returned after the game ended in checkmate with two tokens
\* left, both recorded invalid for want of legal moves
C15_Witness ==
  /\ pc = "done"
  /\ Len(calls) >= 6
  /\ Terminal(calls[Len(calls) - 1].before)
  /\ Terminal(Last.before)
  /\ ~Terminal(calls[Len(calls) - 2].before)
  /\ calls[Len(calls) - 1].result.error = "No legal moves available"
  /\ Last.result.error = "No legal moves available"
  /\ stats.invalid >= 2

(***************************************************************************)
(* extractMoveNotation on its own: fuzzyMatchMove is handed one text and   *)
(* normalizes it (const moveNotation = extractMoveNotation(invalidMove)).     *)
(* The texts are all the strings over a small alphabet: digits, the dot,   *)
(* the space, a letter and the dash.                                       *)
(***************************************************************************)
MaxText == 4

TextAlphabet == {"0", "1", ".", " ", "e", "-"}

Texts == UNION {[1..n -> TextAlphabet] : n \in 0..MaxText}

NormalizeInit ==
  /\ zeroCastling = FALSE
  /\ originalMoves \in {<<text>> : text \in Texts}
  /\ board = NewChess
  /\ correctedMoves = <<>>
  /\ corrections = <<>>
  /\ stats = [total |-> 1, valid |-> 0, corrected |-> 0, invalid |-> 0]
  /\ processed = 0
  /\ moveNotation = <<>>
  /\ result = <<>>
  /\ entry = NewChess
  /\ calls = <<>>
  /\ pc = "normalize"
  /\ AfterExtraction
  /\ PageIdle
  /\ NoUpload
  /\ NoSession

\* const moveNotation = extractMoveNotation(invalidMove)
Normalize ==
  /\ pc = "normalize"
  /\ moveNotation' = extractMoveNotation(originalMove)
  /\ pc' = "normalized"
  /\ UNCHANGED <<blocks, moves, attempted, returned>>
  /\ UNCHANGED pageVars
  /\ UNCHANGED lambdaVars
  /\ UNCHANGED sessionVars
  /\ UNCHANGED <<zeroCastling, originalMoves, board, correctedMoves, corrections, stats,
                 processed, result, entry, calls>>

NormalizeNext == Normalize

NormalizeSpec == NormalizeInit /\ [][NormalizeNext]_vars

\* the text begins with an integer followed by a dot
HasNumberPrefix(s) ==
  /\ s # <<>>
  /\ IsDigit(Head(s))
  /\ DropDigits(s) # <<>>
  /\ Head(DropDigits(s)) = "."

\* the text without its leading integer and dot, when it has them
WithoutNumberPrefix(s) == IF HasNumberPrefix(s) THEN Tail(DropDigits(s)) ELSE s

\* the first whitespace-delimited word of the text
FirstWord(s) == FirstPart(DropSpaces(s))

\* the normalization as the documentation words it
DescribedNotation(text) == FirstWord(WithoutNumberPrefix(Trim(text)))

HasWhitespace(s) == \E k \in 1..Len(s) : IsSpace(s[k])

\* C13: the normalized token is the text trimmed, without a leading
\* integer-and-dot prefix, cut at its first whitespace; in particular a text
\* with no such prefix and no whitespace (0-0) is returned unchanged.
C13_NormalizationAsDescribed ==
  pc = "normalized" =>
    /\ moveNotation = DescribedNotation(originalMove)
    /\ (~HasNumberPrefix(originalMove) /\ ~HasWhitespace(originalMove)) =>
         moveNotation = originalMove

\* the castling token written with digits loses its first digit
C13_Witness ==
  /\ pc = "normalized"
  /\ originalMove = <<"0", "-", "0">>
  /\ moveNotation = <<"-", "0">>

(***************************************************************************)
(* correctOCRErrors with a library whose moves() may throw.  board.moves() *)
(* is called outside every try block of fuzzyMatchMove, and correctOCRErrors *)
(* has none: the exception leaves both functions.                          *)
(***************************************************************************)
\* a variant: the exception is caught and the token returned as invalid
MovesThrowsCaught ==
  /\ pc = "levenshtein"
  /\ result' = [f \in DOMAIN NoMatch(board, moveNotation, originalMove, "Invalid move", 0)
                  \ {"board"} |->
                  NoMatch(board, moveNotation, originalMove, "Invalid move", 0)[f]]
  /\ pc' = "record"
  /\ UNCHANGED <<blocks, moves, attempted, returned>>
  /\ UNCHANGED pageVars
  /\ UNCHANGED lambdaVars
  /\ UNCHANGED sessionVars
  /\ UNCHANGED <<zeroCastling, originalMoves, board, correctedMoves, corrections, stats,
                 processed, moveNotation, entry, calls>>

\* const legalMoves = board.moves() throws: fuzzyMatchMove and correctOCRErrors
\* are left by the exception
MovesThrows ==
  /\ pc = "levenshtein"
  /\ pc' = "thrown"
  /\ UNCHANGED <<blocks, moves, attempted, returned>>
  /\ UNCHANGED pageVars
  /\ UNCHANGED lambdaVars
  /\ UNCHANGED sessionVars
  /\ UNCHANGED <<zeroCastling, originalMoves, board, correctedMoves, corrections, stats,
                 processed, moveNotation, result, entry, calls>>

ThrowingNext == Next \/ MovesThrows

ThrowingSpec == Init /\ [][ThrowingNext]_vars

\* C16: when board.moves() throws, the run is over: no statement of
\* correctOCRErrors runs after it, so nothing is returned, and the token at
\* hand has left no trace: no entry in correctedMoves, no correction record,
\* no count.  A step out of the Levenshtein stage is either the stage's own
\* result, moves() having answered, or this end of the run.
C16_OracleErrorPropagates ==
  /\ [](pc = "thrown" =>
          /\ processed < Len(originalMoves)
          /\ Len(calls) = processed
          /\ Len(correctedMoves) = processed
          /\ Len(corrections) = HowMany(Repaired) + HowMany(Rejected)
          /\ stats.valid + stats.corrected + stats.invalid = processed
          /\ stats.invalid = HowMany(Rejected))
  /\ [][/\ pc # "thrown"
        /\ pc = "levenshtein" => (LevenshteinStage \/ (pc' = "thrown" /\ calls' = calls))]_vars

\* moves() threw on the second token, after the first had been recorded
C16_Witness ==
  /\ pc = "thrown"
  /\ processed = 1
  /\ Len(originalMoves) >= 2
  /\ Len(correctedMoves) = 1

(***************************************************************************)
(* The regular expressions of extractMovesFromBlocks.  A pattern is a list *)
(* of alternatives tried in order, an alternative a list of character      *)
(* classes each with its quantifier; matching is greedy with backtracking, *)
(* as in JavaScript.  An optional group of the source, (?:x[a-h][1-8])?,   *)
(* is written as two alternatives, the one with the group first.           *)
(***************************************************************************)
One(class) == [class |-> class, min |-> 1, many |-> FALSE]
Optional(class) == [class |-> class, min |-> 0, many |-> FALSE]
OneOrMore(class) == [class |-> class, min |-> 1, many |-> TRUE]
ZeroOrMore(class) == [class |-> class, min |-> 0, many |-> TRUE]

\* \d
DigitClass == {"0", "1", "2", "3", "4", "5", "6", "7", "8", "9"}
\* \s
SpaceClass == {" ", "\t", "\n"}
\* \w
WordClass == Range(UpperCase) \cup Range(LowerCase) \cup DigitClass \cup {"_"}
\* [a-h]
FileClass == {"a", "b", "c", "d", "e", "f", "g", "h"}
\* [1-8]
RankClass == {"1", "2", "3", "4", "5", "6", "7", "8"}
\* [NBRQK]
PieceClass == {"N", "B", "R", "Q", "K"}
\* [+#=]
CheckClass == {"+", "#", "="}
\* [a-h1-8NBRQKx=+#O-]
MoveCharClass == FileClass \cup RankClass \cup PieceClass \cup {"x", "=", "+", "#", "O", "-"}

\* the character belongs to the class; ignoreCase is the flag i
InClass(c, class, ignoreCase) ==
  \/ c \in class
  \/ ignoreCase /\ \E d \in class : ToLower(d) = ToLower(c)

\* \b at pos: exactly one of the characters before and at pos is a word
\* character
WordBoundary(s, pos) ==
  LET IsWord(i) == i \in 1..Len(s) /\ s[i] \in WordClass
  IN IsWord(pos - 1) # IsWord(pos)

\* the number of characters from pos on that belong to the class, at most
\* limit
RECURSIVE RunLength(_, _, _, _, _)
RunLength(s, pos, class, ignoreCase, limit) ==
  IF limit = 0 \/ pos > Len(s) \/ ~InClass(s[pos], class, ignoreCase) THEN 0
  ELSE 1 + RunLength(s, pos + 1, class, ignoreCase, limit - 1)

\* the items from the k-th on matched at pos: the position after the match,
\* 0 when there is none.  count is the number of characters the k-th item
\* is given; the largest is tried first.
RECURSIVE MatchItems(_, _, _, _, _, _, _)
MatchItems(s, items, k, pos, count, ignoreCase, bounded) ==
  IF k > Len(items)
  THEN IF bounded => WordBoundary(s, pos) THEN pos ELSE 0
  ELSE IF count < items[k].min THEN 0
       ELSE LET next == pos + count
                rest == IF k = Len(items)
                        THEN MatchItems(s, items, k + 1, next, 0, ignoreCase, bounded)
                        ELSE MatchItems(s, items, k + 1, next,
                                        RunLength(s, next, items[k + 1].class, ignoreCase,
                                                  IF items[k + 1].many THEN Len(s) ELSE 1),
                                        ignoreCase, bounded)
            IN IF rest # 0 THEN rest
               ELSE MatchItems(s, items, k, pos, count - 1, ignoreCase, bounded)

\* the alternatives from the a-th on matched at pos
RECURSIVE MatchAlternatives(_, _, _, _)
MatchAlternatives(s, pattern, a, pos) ==
  IF a > Len(pattern.alternatives) THEN 0
  ELSE LET items == pattern.alternatives[a]
           end == MatchItems(s, items, 1, pos,
                             RunLength(s, pos, items[1].class, pattern.ignoreCase,
                                       IF items[1].many THEN Len(s) ELSE 1),
                             pattern.ignoreCase, pattern.bounded)
       IN IF end # 0 THEN end ELSE MatchAlternatives(s, pattern, a + 1, pos)

\* the pattern matched at pos, between word boundaries when it is bounded
MatchPattern(s, pattern, pos) ==
  IF pattern.bounded /\ ~WordBoundary(s, pos) THEN 0
  ELSE MatchAlternatives(s, pattern, 1, pos)

\* text.match(pattern), pattern with the flag g: the matches from left to
\* right, none overlapping; JavaScript's null is the empty list
RECURSIVE GlobalMatch(_, _, _)
GlobalMatch(s, pattern, pos) ==
  IF pos > Len(s) THEN <<>>
  ELSE LET end == MatchPattern(s, pattern, pos)
       IN IF end > pos
          THEN <<SubSeq(s, pos, end - 1)>> \o GlobalMatch(s, pattern, end)
          ELSE GlobalMatch(s, pattern, pos + 1)

\* /(\d+\.?\s*[a-h1-8NBRQKx=+#O-]+\s*[a-h1-8NBRQKx=+#O-]*)/gi
movePatternWithNumber ==
  [alternatives |->
     << <<OneOrMore(DigitClass), Optional({"."}), ZeroOrMore(SpaceClass),
          OneOrMore(MoveCharClass), ZeroOrMore(SpaceClass), ZeroOrMore(MoveCharClass)>> >>,
   ignoreCase |-> TRUE, bounded |-> FALSE]

\* /\b([a-h][1-8](?:x[a-h][1-8])?[+#=]?|O-O(?:-O)?|0-0(?:-0)?|
\*     [NBRQK][a-h1-8]?x?[a-h][1-8](?:x[a-h][1-8])?[+#=]?|[a-h]x[a-h][1-8][+#=]?)\b/gi
movePatternStandalone ==
  [alternatives |->
     << <<One(FileClass), One(RankClass), One({"x"}), One(FileClass), One(RankClass),
          Optional(CheckClass)>>,
        <<One(FileClass), One(RankClass), Optional(CheckClass)>>,
        <<One({"O"}), One({"-"}), One({"O"}), One({"-"}), One({"O"})>>,
        <<One({"O"}), One({"-"}), One({"O"})>>,
        <<One({"0"}), One({"-"}), One({"0"}), One({"-"}), One({"0"})>>,
        <<One({"0"}), One({"-"}), One({"0"})>>,
        <<One(PieceClass), Optional(FileClass \cup RankClass), Optional({"x"}),
          One(FileClass), One(RankClass), One({"x"}), One(FileClass), One(RankClass),
          Optional(CheckClass)>>,
        <<One(PieceClass), Optional(FileClass \cup RankClass), Optional({"x"}),
          One(FileClass), One(RankClass), Optional(CheckClass)>>,
        <<One(FileClass), One({"x"}), One(FileClass), One(RankClass),
          Optional(CheckClass)>> >>,
   ignoreCase |-> TRUE, bounded |-> TRUE]

(***************************************************************************)
(* extractMovesFromBlocks.  A block is a record of the fields the function *)
(* reads: BlockType, Text (empty when the block has none), RowIndex and    *)
(* ColumnIndex (absent, or present as <<n>>), Id, Ids (the Ids of its      *)
(* CHILD relationship) and Top and Left of the bounding box, in            *)
(* thousandths (absent when the block has no geometry).  The argument is   *)
(* null, undefined or an array of blocks.                                  *)
(***************************************************************************)
\* (blocks || [])
OrEmpty(argument) == IF argument.type = "object" THEN argument.items ELSE <<>>

\* (x || 0)
OrZero(optional) == IF optional = <<>> THEN 0 ELSE optional[1]

\* block.Text && block.Text.trim().length > 0
HasText(block) == Trim(block.Text) # <<>>

IsCellWithText(block) ==
  block.BlockType = "CELL" /\ HasText(block) /\ block.RowIndex # <<>>

IsWordWithText(block) == block.BlockType = "WORD" /\ HasText(block)

IsTable(block) == block.BlockType = "TABLE"

\* (cell.RowIndex || 0) > 0
BelowHeaderRow(cell) == OrZero(cell.RowIndex) > 0

\* /^\d+$/
AllDigits(s) == s # <<>> /\ \A i \in 1..Len(s) : IsDigit(s[i])

\* /^[A-Z]{2,}$/
AllCapitals(s) == Len(s) >= 2 /\ \A i \in 1..Len(s) : s[i] \in Range(UpperCase)

\* /[a-h1-8NBRQKx=+#O-]/
ContainsMoveChar(s) == \E i \in 1..Len(s) : s[i] \in MoveCharClass

\* /^(move|round|white|black|result|date|event)/i
headerWordsOfRows ==
  { <<"m", "o", "v", "e">>, <<"r", "o", "u", "n", "d">>, <<"w", "h", "i", "t", "e">>,
    <<"b", "l", "a", "c", "k">>, <<"r", "e", "s", "u", "l", "t">>, <<"d", "a", "t", "e">>,
    <<"e", "v", "e", "n", "t">> }

\* /^(move|round|white|black|result|date|event|tournament|site|player)/i
headerWordsOfCells ==
  headerWordsOfRows \cup
  { <<"t", "o", "u", "r", "n", "a", "m", "e", "n", "t">>, <<"s", "i", "t", "e">>,
    <<"p", "l", "a", "y", "e", "r">> }

LooksLikeHeader(s, words) == \E w \in words : MatchAt(s, 1, w, TRUE)

\* the text begins with one character of each class in turn
StartsWith(s, classes) ==
  /\ Len(s) >= Len(classes)
  /\ \A i \in 1..Len(classes) : s[i] \in classes[i]

\* cleaned.split(/\s+/).filter(p => p.length > 0)
RECURSIVE Words(_)
Words(s) ==
  IF DropSpaces(s) = <<>> THEN <<>>
  ELSE <<FirstPart(DropSpaces(s))>>
         \o Words(Drop(DropSpaces(s), Len(FirstPart(DropSpaces(s)))))

\* texts.join(' ')
RECURSIVE Join(_)
Join(texts) ==
  IF texts = <<>> THEN <<>>
  ELSE IF Len(texts) = 1 THEN texts[1]
       ELSE texts[1] \o <<" ">> \o Join(Tail(texts))

\* the lists of a list, one after the other
RECURSIVE Concat(_)
Concat(lists) == IF lists = <<>> THEN <<>> ELSE Head(lists) \o Concat(Tail(lists))

\* the members of a set of numbers, ascending
Ascending(S) ==
  [r \in 1..Cardinality(S) |-> CHOOSE x \in S : Cardinality({y \in S : y < x}) = r - 1]

\* array.sort((a, b) => key(a) - key(b)): the items by ascending key, items
\* of equal key in the order they had
SortedBy(items, keys) ==
  LET Place(i) ==
        1 + Cardinality({j \in 1..Len(items) :
                           keys[j] < keys[i] \/ (keys[j] = keys[i] /\ j < i)})
  IN [r \in 1..Len(items) |-> items[CHOOSE i \in 1..Len(items) : Place(i) = r]]

\* the items whose key is k, in the order they have
WithKey(items, keys, k) ==
  LET places == Ascending({i \in 1..Len(items) : keys[i] = k})
  IN [j \in 1..Len(places) |-> items[places[j]]]

\* Object.values(rows) of rows[key].push(item): the rows of the integer keys
\* in ascending order, then the row of the key 'unknown' (an absent key)
RowsByKey(items, keys) ==
  LET numbers == Ascending({keys[i][1] : i \in {j \in 1..Len(items) : keys[j] # <<>>}})
      numbered == [r \in 1..Len(numbers) |-> WithKey(items, keys, <<numbers[r]>>)]
  IN IF \E i \in 1..Len(items) : keys[i] = <<>>
     THEN Append(numbered, WithKey(items, keys, <<>>))
     ELSE numbered

\* a variant: the matches split into words, the number left in place
PartsOfMatchesKeepingNumber(matches) ==
  Concat([i \in 1..Len(matches) |-> Words(Trim(matches[i]))])

\* match.replace(/^\d+\.?\s*/, '').trim().split(/\s+/).filter(p => p.length > 0)
\* for every match
PartsOfMatches(matches) ==
  Concat([i \in 1..Len(matches) |-> Words(Trim(StripMoveNumber(matches[i])))])

\* matches.map(m => m.trim())
Trimmed(matches) == [i \in 1..Len(matches) |-> Trim(matches[i])]

\* a row's text tried with the numbered pattern, then with the standalone
\* pattern: found tells whether either matched
FromRowText(rowText) ==
  LET Standalone(matches) ==
        IF matches # <<>> THEN [found |-> TRUE, tokens |-> Trimmed(matches)]
        ELSE [found |-> FALSE, tokens |-> <<>>]
      Numbered(matches) ==
        IF matches # <<>> THEN [found |-> TRUE, tokens |-> PartsOfMatches(matches)]
        ELSE Standalone(GlobalMatch(rowText, movePatternStandalone, 1))
  IN Numbered(GlobalMatch(rowText, movePatternWithNumber, 1))

\* validMoves: the standalone matches of a cell that pass the filter
IsValidMove(m) ==
  /\ Len(Trim(m)) >= 2
  /\ \/ StartsWith(Trim(m), <<FileClass, RankClass>>)
     \/ StartsWith(Trim(m), <<PieceClass>>)
     \/ StartsWith(Trim(m), <<{"O"}, {"-"}, {"O"}>>)
     \/ StartsWith(Trim(m), <<{"0"}, {"-"}, {"0"}>>)
     \/ StartsWith(Trim(m), <<FileClass, {"x"}>>)
     \/ StartsWith(Trim(m), <<FileClass, FileClass>>)
     \/ StartsWith(Trim(m), <<PieceClass, FileClass>>)

\* the tokens of one cell of a row whose text matched neither pattern
FromCell(cellText) ==
  LET Standalone(matches) ==
        IF matches # <<>>
        THEN IF SelectSeq(matches, IsValidMove) # <<>>
             THEN Trimmed(SelectSeq(matches, IsValidMove))
             ELSE IF /\ Len(cellText) >= 2
                     /\ Len(cellText) <= 6
                     /\ ~AllDigits(cellText)
                     /\ ~AllCapitals(cellText)
                  THEN <<cellText>>
                  ELSE <<>>
        ELSE IF /\ Len(cellText) >= 2
                /\ Len(cellText) <= 6
                /\ ~AllDigits(cellText)
                /\ ContainsMoveChar(cellText)
             THEN <<cellText>>
             ELSE <<>>
      Numbered(matches) ==
        IF matches # <<>> THEN PartsOfMatches(matches)
        ELSE Standalone(GlobalMatch(cellText, movePatternStandalone, 1))
  IN IF AllDigits(cellText) \/ cellText = <<>> THEN <<>>
     ELSE Numbered(GlobalMatch(cellText, movePatternWithNumber, 1))

\* the tokens of one row of cells
FromRowOfCells(rowCells) ==
  LET Row(sorted) ==
        LET TokensOf(fromText) ==
              IF fromText.found THEN fromText.tokens
              ELSE Concat([i \in 1..Len(sorted) |-> FromCell(Trim(sorted[i].Text))])
        IN TokensOf(FromRowText(Trim(Join([i \in 1..Len(sorted) |-> sorted[i].Text]))))
  IN Row(SortedBy(rowCells, [i \in 1..Len(rowCells) |-> OrZero(rowCells[i].ColumnIndex)]))

\* the cells with text of the rows below row 0
CellsBelowHeader(list) == SelectSeq(SelectSeq(list, IsCellWithText), BelowHeaderRow)

\* the direct text of the cells, row by row
fromCellText(list) ==
  LET Rows(cells) ==
        RowsByKey(cells, [i \in 1..Len(cells) |-> <<OrZero(cells[i].RowIndex)>>])
      TokensOf(rows) == Concat([r \in 1..Len(rows) |-> FromRowOfCells(rows[r])])
  IN TokensOf(Rows(CellsBelowHeader(list)))

\* the last resort: every cell that might be a move
fromLastResort(list) ==
  LET Keep(cellText) ==
        /\ cellText # <<>>
        /\ ~AllDigits(cellText)
        /\ Len(cellText) >= 2
        /\ ~LooksLikeHeader(cellText, headerWordsOfCells)
        /\ Len(cellText) <= 10
        /\ ContainsMoveChar(cellText)
      Of(cells) ==
        Concat([i \in 1..Len(cells) |->
                  IF Keep(Trim(cells[i].Text)) THEN <<Trim(cells[i].Text)>> ELSE <<>>])
  IN Of(CellsBelowHeader(list))

\* blockMap[id]: the last block of the list with the Id, as a list of one
\* block, empty when there is none
BlockWithId(list, id) ==
  LET places == {i \in 1..Len(list) : list[i].Id # "" /\ list[i].Id = id}
  IN IF places = {} THEN <<>>
     ELSE <<list[CHOOSE i \in places : \A j \in places : j <= i]>>

\* the words under the children of a table: those of a child CELL carry the
\* cell's row and column, a child WORD carries none
tableWords(list, table) ==
  LET WordsOfCell(cell) ==
        Concat([k \in 1..Len(cell.Ids) |->
                  LET word == BlockWithId(list, cell.Ids[k])
                  IN IF word # <<>> /\ word[1].BlockType = "WORD" /\ word[1].Text # <<>>
                     THEN << [text |-> Trim(word[1].Text), row |-> cell.RowIndex,
                              col |-> cell.ColumnIndex] >>
                     ELSE <<>>])
      OfChild(child) ==
        IF child = <<>> THEN <<>>
        ELSE IF child[1].BlockType = "CELL" THEN WordsOfCell(child[1])
             ELSE IF child[1].BlockType = "WORD" /\ child[1].Text # <<>>
                  THEN << [text |-> Trim(child[1].Text), row |-> <<>>, col |-> <<>>] >>
                  ELSE <<>>
  IN Concat([k \in 1..Len(table.Ids) |-> OfChild(BlockWithId(list, table.Ids[k]))])

\* the tokens of one word of a row whose text matched neither pattern; the
\* geometric grouping does not try the standalone pattern on the word
FromWord(wordText, tryStandalone) ==
  LET Plain ==
        IF /\ Len(wordText) >= 2
           /\ Len(wordText) <= 10
           /\ ~AllDigits(wordText)
           /\ ContainsMoveChar(wordText)
        THEN <<wordText>>
        ELSE <<>>
      Standalone(matches) == IF matches # <<>> THEN Trimmed(matches) ELSE Plain
  IN IF AllDigits(wordText) \/ Len(wordText) < 2 THEN <<>>
     ELSE IF tryStandalone
          THEN Standalone(GlobalMatch(wordText, movePatternStandalone, 1))
          ELSE Plain

\* the tokens of one row of words, sorted already, texts being their texts
FromRowOfWords(texts, skipHeader, tryStandalone) ==
  LET TokensOf(fromText) ==
        IF fromText.found THEN fromText.tokens
        ELSE Concat([i \in 1..Len(texts) |-> FromWord(texts[i], tryStandalone)])
  IN IF skipHeader /\ LooksLikeHeader(Trim(Join(texts)), headerWordsOfRows) THEN <<>>
     ELSE TokensOf(FromRowText(Trim(Join(texts))))

\* the table structure rebuilt from the words under every TABLE block
fromTableWords(list) ==
  LET OfRow(rowWords) ==
        LET Row(sorted) ==
              FromRowOfWords([i \in 1..Len(sorted) |-> sorted[i].text], FALSE, TRUE)
        IN Row(SortedBy(rowWords, [i \in 1..Len(rowWords) |-> OrZero(rowWords[i].col)]))
      OfRows(rows) == Concat([r \in 1..Len(rows) |-> OfRow(rows[r])])
      OfTable(words) == OfRows(RowsByKey(words, [i \in 1..Len(words) |-> words[i].row]))
      Of(tables) == Concat([t \in 1..Len(tables) |-> OfTable(tableWords(list, tables[t]))])
  IN Of(SelectSeq(list, IsTable))

HasGeometry(block) == block.Top # <<>>

\* the words grouped into rows by the top of their bounding box
fromGeometry(list) ==
  LET OfRow(rowWords) ==
        LET Row(sorted) ==
              FromRowOfWords([i \in 1..Len(sorted) |-> Trim(sorted[i].Text)], TRUE, FALSE)
        IN Row(SortedBy(rowWords, [i \in 1..Len(rowWords) |-> OrZero(rowWords[i].Left)]))
      OfRows(rows) == Concat([r \in 1..Len(rows) |-> OfRow(rows[r])])
      Of(words) == OfRows(RowsByKey(words, [i \in 1..Len(words) |-> words[i].Top]))
  IN Of(SelectSeq(SelectSeq(list, IsWordWithText), HasGeometry))

\* extractMovesFromBlocks as a function of its argument: the tokens it
\* returns and the stages it goes through
extractMovesFromBlocks(argument) ==
  LET list == OrEmpty(argument)
      Words1(fromTable) ==
        IF fromTable # <<>> THEN fromTable ELSE fromGeometry(list)
      Cells(fromCells) ==
        IF fromCells # <<>> THEN fromCells ELSE fromLastResort(list)
  IN IF SelectSeq(list, IsCellWithText) = <<>>
     THEN IF SelectSeq(list, IsWordWithText) # <<>>
          THEN Words1(fromTableWords(list))
          ELSE <<>>
     ELSE Cells(fromCellText(list))

(***************************************************************************)
(* The arguments of the runs followed: null, undefined, and the lists of   *)
(* up to MaxBlocks blocks of a catalogue: cells with a move, a move        *)
(* number, another number, header words in and below row 0, a text only    *)
(* the last resort takes, a cell without a row, a cell whose text is in    *)
(* its word, words with and without text, a table and a line, and the      *)
(* cells of a row that reads 1. e4 e5, 1 e4 e5 or e4 e5.                   *)
(***************************************************************************)
MaxBlocks == 2

Cell(id, text, row, col, ids) ==
  [BlockType |-> "CELL", Id |-> id, Text |-> text, RowIndex |-> row, ColumnIndex |-> col,
   Ids |-> ids, Top |-> <<>>, Left |-> <<>>]

Word(id, text, top, left) ==
  [BlockType |-> "WORD", Id |-> id, Text |-> text, RowIndex |-> <<>>, ColumnIndex |-> <<>>,
   Ids |-> <<>>, Top |-> top, Left |-> left]

Table(id, ids) ==
  [BlockType |-> "TABLE", Id |-> id, Text |-> <<>>, RowIndex |-> <<>>, ColumnIndex |-> <<>>,
   Ids |-> ids, Top |-> <<>>, Left |-> <<>>]

Line(id, text) ==
  [BlockType |-> "LINE", Id |-> id, Text |-> text, RowIndex |-> <<>>, ColumnIndex |-> <<>>,
   Ids |-> <<>>, Top |-> <<>>, Left |-> <<>>]

BlockCatalogue ==
  { Cell("c1", <<"e", "4">>, <<1>>, <<2>>, <<>>),
    Cell("c2", <<"1">>, <<1>>, <<1>>, <<>>),
    Cell("c3", <<"2", "3">>, <<1>>, <<3>>, <<>>),
    Cell("c4", <<"R", "O", "U", "N", "D">>, <<2>>, <<1>>, <<>>),
    Cell("c5", <<"W", "h", "i", "t", "e">>, <<0>>, <<1>>, <<>>),
    Cell("c6", <<"e", "5">>, <<0>>, <<2>>, <<>>),
    Cell("c7", <<>>, <<1>>, <<1>>, <<"w1">>),
    Cell("c8", <<"B", "L", "A", "C", "K">>, <<1>>, <<2>>, <<>>),
    Cell("c9", <<"W", "H", "I", "T", "E">>, <<2>>, <<2>>, <<>>),
    Cell("c10", <<"r", "e", "s", "i", "g", "n", "s">>, <<2>>, <<3>>, <<>>),
    Cell("c11", <<"d", "4">>, <<>>, <<1>>, <<>>),
    Cell("c12", <<"1", ".", " ", "e", "4">>, <<1>>, <<1>>, <<>>),
    Cell("c13", <<"e", "5">>, <<1>>, <<3>>, <<>>),
    Cell("c14", <<"e", "4", " ", "e", "5">>, <<1>>, <<2>>, <<>>),
    Word("w1", <<"e", "4">>, <<100>>, <<200>>),
    Word("w2", <<"N", "f", "3">>, <<100>>, <<100>>),
    Word("w3", <<" ">>, <<300>>, <<100>>),
    Table("t1", <<"c7", "w2">>),
    Line("l1", <<"e", "4", " ", "e", "5">>) }

Arguments ==
  {[type |-> "null", items |-> <<>>], [type |-> "undefined", items |-> <<>>]}
    \cup {[type |-> "object", items |-> list] :
            list \in UNION {[1..n -> BlockCatalogue] : n \in 0..MaxBlocks}}

(***************************************************************************)
(* correctOCRErrors called twice with the same argument.  What a call      *)
(* works on it creates itself: the board, the lists and the counters are   *)
(* locals, the patterns of generateFuzzyMatches are built on every call,   *)
(* and OCR_SUBSTITUTIONS, the one object of the module, is never written.  *)
(***************************************************************************)
\* return { originalMoves, correctedMoves, corrections, stats }
ReturnedObject ==
  [originalMoves |-> originalMoves, correctedMoves |-> correctedMoves,
   corrections |-> corrections, stats |-> stats]

\* a variant: the board is an object of the module, the second run goes on
\* with it
RunAgainOnTheSameBoard ==
  /\ pc = "done"
  /\ returned = <<>>
  /\ returned' = <<ReturnedObject>>
  /\ correctedMoves' = <<>>
  /\ corrections' = <<>>
  /\ stats' = [total |-> Len(originalMoves), valid |-> 0, corrected |-> 0, invalid |-> 0]
  /\ processed' = 0
  /\ moveNotation' = <<>>
  /\ result' = <<>>
  /\ entry' = board
  /\ calls' = <<>>
  /\ pc' = "loop"
  /\ UNCHANGED <<zeroCastling, originalMoves, board, blocks, moves, attempted>>
  /\ UNCHANGED pageVars
  /\ UNCHANGED lambdaVars
  /\ UNCHANGED sessionVars

\* the caller keeps what the first run returned and calls correctOCRErrors
\* with the same blocks again: the second run starts as the first did
RunAgain ==
  /\ pc = "done"
  /\ returned = <<>>
  /\ returned' = <<ReturnedObject>>
  /\ board' = NewChess
  /\ correctedMoves' = <<>>
  /\ corrections' = <<>>
  /\ stats' = [total |-> Len(originalMoves), valid |-> 0, corrected |-> 0, invalid |-> 0]
  /\ processed' = 0
  /\ moveNotation' = <<>>
  /\ result' = <<>>
  /\ entry' = NewChess
  /\ calls' = <<>>
  /\ pc' = "loop"
  /\ UNCHANGED <<zeroCastling, originalMoves, blocks, moves, attempted>>
  /\ UNCHANGED pageVars
  /\ UNCHANGED lambdaVars
  /\ UNCHANGED sessionVars

TwoRunsNext == Next \/ RunAgain

TwoRunsSpec == Init /\ [][TwoRunsNext]_vars

ExtractInit ==
  /\ zeroCastling \in BOOLEAN
  /\ blocks \in Arguments
  /\ moves = <<>>
  /\ attempted = <<>>
  /\ returned = <<>>
  /\ originalMoves = <<>>
  /\ board = NewChess
  /\ correctedMoves = <<>>
  /\ corrections = <<>>
  /\ stats = [total |-> 0, valid |-> 0, corrected |-> 0, invalid |-> 0]
  /\ processed = 0
  /\ moveNotation = <<>>
  /\ result = <<>>
  /\ entry = NewChess
  /\ calls = <<>>
  /\ pc = "extract"
  /\ PageIdle
  /\ NoUpload
  /\ NoSession

\* cellBlocks, before the header row is taken out
cellBlocks == SelectSeq(OrEmpty(blocks), IsCellWithText)

wordBlocks == SelectSeq(OrEmpty(blocks), IsWordWithText)

tableBlocks == SelectSeq(OrEmpty(blocks), IsTable)

Stage(name, tokens, nextStage) ==
  /\ moves' = tokens
  /\ attempted' = Append(attempted, name)
  /\ pc' = IF tokens = <<>> THEN nextStage ELSE "return"
  /\ UNCHANGED <<zeroCastling, originalMoves, board, correctedMoves, corrections, stats,
                 processed, moveNotation, result, entry, calls, blocks, returned>>
  /\ UNCHANGED pageVars
  /\ UNCHANGED lambdaVars
  /\ UNCHANGED sessionVars

\* a variant: blocks.filter on the argument as it came, which raises a
\* TypeError when the argument is null or undefined
NoTextUnguarded ==
  /\ pc = "extract"
  /\ cellBlocks = <<>>
  /\ wordBlocks = <<>>
  /\ pc' = IF blocks.type = "object" THEN "return" ELSE "thrown"
  /\ UNCHANGED <<zeroCastling, originalMoves, board, correctedMoves, corrections, stats,
                 processed, moveNotation, result, entry, calls, blocks, moves, attempted,
                 returned>>
  /\ UNCHANGED pageVars
  /\ UNCHANGED lambdaVars
  /\ UNCHANGED sessionVars

\* neither a cell nor a word with text: return moves, which is empty
NoText ==
  /\ pc = "extract"
  /\ cellBlocks = <<>>
  /\ wordBlocks = <<>>
  /\ pc' = "return"
  /\ UNCHANGED <<zeroCastling, originalMoves, board, correctedMoves, corrections, stats,
                 processed, moveNotation, result, entry, calls, blocks, moves, attempted,
                 returned>>
  /\ UNCHANGED pageVars
  /\ UNCHANGED lambdaVars
  /\ UNCHANGED sessionVars

\* no cell with text, words with text, TABLE blocks: the words of the tables
TableToWords ==
  /\ pc = "extract"
  /\ cellBlocks = <<>>
  /\ wordBlocks # <<>>
  /\ tableBlocks # <<>>
  /\ Stage("table", fromTableWords(OrEmpty(blocks)), "geometric")

\* a variant: the words are grouped whether or not cells carry text
GeometricGroupingAfterCells ==
  /\ \/ pc = "geometric"
     \/ pc = "extract" /\ wordBlocks # <<>> /\ tableBlocks = <<>>
  /\ Stage("geometric", fromGeometry(OrEmpty(blocks)), "return")

\* the words grouped by their top edge, when the tables gave nothing or
\* there is no table
GeometricGrouping ==
  /\ \/ pc = "geometric"
     \/ pc = "extract" /\ cellBlocks = <<>> /\ wordBlocks # <<>> /\ tableBlocks = <<>>
  /\ Stage("geometric", fromGeometry(OrEmpty(blocks)), "return")

\* cells with text: the rows below the header row
CellText ==
  /\ pc = "extract"
  /\ cellBlocks # <<>>
  /\ Stage("cells", fromCellText(OrEmpty(blocks)), "lastResort")

\* the permissive scan of the same cells
LastResort ==
  /\ pc = "lastResort"
  /\ Stage("lastResort", fromLastResort(OrEmpty(blocks)), "return")

\* const originalMoves = extractMovesFromBlocks(blocks), and the locals of
\* correctOCRErrors
ReturnMoves ==
  /\ pc = "return"
  /\ originalMoves' = moves
  /\ stats' = [total |-> Len(moves), valid |-> 0, corrected |-> 0, invalid |-> 0]
  /\ pc' = "loop"
  /\ UNCHANGED <<zeroCastling, board, correctedMoves, corrections, processed, moveNotation,
                 result, entry, calls, blocks, moves, attempted, returned>>
  /\ UNCHANGED pageVars
  /\ UNCHANGED lambdaVars
  /\ UNCHANGED sessionVars

\* the loop over no token
ReturnEmpty == originalMoves = <<>> /\ Return

ExtractNext ==
  NoText \/ TableToWords \/ GeometricGrouping \/ CellText \/ LastResort \/ ReturnMoves
    \/ ReturnEmpty

ExtractSpec == ExtractInit /\ [][ExtractNext]_vars

\* the run went through extractMovesFromBlocks stage by stage: what the
\* stages left is what the function returns
Extracted == pc \in {"return", "loop", "done"}

StagesGiveTheFunction == Extracted => moves = extractMovesFromBlocks(blocks)

\* a block list none of whose CELL and WORD blocks carries text, or no list
NothingToRead ==
  \A i \in 1..Len(OrEmpty(blocks)) :
    OrEmpty(blocks)[i].BlockType \in {"CELL", "WORD"} => ~HasText(OrEmpty(blocks)[i])

NoStats == [total |-> 0, valid |-> 0, corrected |-> 0, invalid |-> 0]

\* C17: given null, undefined, an empty list or a list in which no CELL and
\* no WORD block carries text, extractMovesFromBlocks goes to its return
\* without running a stage and without raising, and returns the empty list;
\* correctOCRErrors then returns empty originalMoves, correctedMoves and
\* corrections and stats that are all zero.
C17_NothingToReadGivesEmpty ==
  NothingToRead =>
    /\ pc # "thrown"
    /\ pc = "extract" => cellBlocks = <<>> /\ wordBlocks = <<>>
    /\ Extracted => moves = <<>> /\ attempted = <<>>
    /\ pc \in {"loop", "done"} => originalMoves = <<>> /\ stats = NoStats
    /\ pc = "done" =>
         ReturnedObject = [originalMoves |-> <<>>, correctedMoves |-> <<>>,
                           corrections |-> <<>>, stats |-> NoStats]

\* correctOCRErrors(null) has returned
C17_Witness ==
  /\ blocks.type = "null"
  /\ pc = "done"
  /\ ReturnedObject.originalMoves = <<>>
  /\ ReturnedObject.stats = NoStats

\* the word, whatever the case of its letters
IsHeaderWord(token) ==
  \E w \in headerWordsOfCells : Len(token) = Len(w) /\ MatchAt(token, 1, w, TRUE)

\* the token is a piece of the text of a cell below row 0
FromBelowHeader(token) ==
  \E i \in 1..Len(cellBlocks) :
    /\ BelowHeaderRow(cellBlocks[i])
    /\ \E k \in 1..Len(cellBlocks[i].Text) : MatchAt(cellBlocks[i].Text, k, token, FALSE)

\* no token of the cell stages is text of a row-0 cell only
RowZeroDiscarded ==
  (Extracted /\ cellBlocks # <<>>) => \A i \in 1..Len(moves) : FromBelowHeader(moves[i])

NoHeaderWord == (Extracted /\ cellBlocks # <<>>) => \A i \in 1..Len(moves) : ~IsHeaderWord(moves[i])

NoBareInteger == (Extracted /\ cellBlocks # <<>>) => \A i \in 1..Len(moves) : ~AllDigits(moves[i])

NoSingleCharacter == (Extracted /\ cellBlocks # <<>>) => \A i \in 1..Len(moves) : Len(moves[i]) # 1

\* C18: of cells carrying direct text, no token that extractMovesFromBlocks
\* returns comes from a row-0 cell, is a header word, is a bare integer or
\* is a single character.
C18_NoHeaderIntegerOrSingle ==
  (Extracted /\ cellBlocks # <<>>) =>
    \A i \in 1..Len(moves) :
      /\ FromBelowHeader(moves[i])
      /\ ~IsHeaderWord(moves[i])
      /\ ~AllDigits(moves[i])
      /\ Len(moves[i]) # 1

\* the cell ROUND of row 2 is returned as a token
C18_Witness ==
  /\ Extracted
  /\ cellBlocks # <<>>
  /\ \E i \in 1..Len(moves) : IsHeaderWord(moves[i])

\* a stage of the words has run
WordStageAttempted == \E i \in 1..Len(attempted) : attempted[i] \in {"table", "geometric"}

\* C19 as stated: when cells with direct text yield no token, the stages of
\* the words are attempted before the empty list is returned.
C19_WordStagesAfterCells ==
  (Extracted /\ cellBlocks # <<>> /\ wordBlocks # <<>> /\ moves = <<>>) => WordStageAttempted

\* C19: the stages form two chains, chosen by whether a CELL block carries
\* direct text and a row index.  With such a cell the direct cell text runs
\* and, exactly when it gave no token, the last-resort scan; no stage of the
\* words runs.  Without one, and with words, the table-to-word
\* reconstruction runs when there is a TABLE block and the geometric
\* grouping exactly when no token came of the tables.  What is returned is
\* what the last stage run gave.
C19_TwoChains ==
  pc = "return" =>
    LET list == OrEmpty(blocks)
        fromCells == fromCellText(list)
        fromTables == fromTableWords(list)
        tablesGaveNothing == tableBlocks = <<>> \/ fromTables = <<>>
    IN /\ cellBlocks # <<>> =>
            /\ attempted = IF fromCells = <<>> THEN <<"cells", "lastResort">> ELSE <<"cells">>
            /\ moves = IF fromCells = <<>> THEN fromLastResort(list) ELSE fromCells
       /\ (cellBlocks = <<>> /\ wordBlocks # <<>>) =>
            /\ attempted =
                 (IF tableBlocks # <<>> THEN <<"table">> ELSE <<>>)
                   \o (IF tablesGaveNothing THEN <<"geometric">> ELSE <<>>)
            /\ moves = IF tablesGaveNothing THEN fromGeometry(list) ELSE fromTables
       /\ (cellBlocks = <<>> /\ wordBlocks = <<>>) => attempted = <<>> /\ moves = <<>>

\* only a row-0 cell carries text and a word reads e4: the empty list is
\* returned after the two stages of the cells
C19_Witness ==
  /\ Extracted
  /\ cellBlocks # <<>>
  /\ \A i \in 1..Len(cellBlocks) : ~BelowHeaderRow(cellBlocks[i])
  /\ \E i \in 1..Len(wordBlocks) : Trim(wordBlocks[i].Text) = <<"e", "4">>
  /\ attempted = <<"cells", "lastResort">>
  /\ moves = <<>>

(***************************************************************************)
(* The convert page (app/convert/page.tsx) once the result of the run is   *)
(* stored: pollForResults reads chessValidation and fills the moves table, *)
(* handleGeneratePGN writes the PGN of the table with convertToPGN         *)
(* (lib/pgn/converter).  A text is the sequence of its characters.  The    *)
(* edits of the user are not followed, and a result without tokens, which  *)
(* sends the page to the parser of the blocks, is not followed either.     *)
(***************************************************************************)
ToUpper(c) ==
  IF c \in Range(LowerCase)
  THEN UpperCase[CHOOSE i \in 1..Len(LowerCase) : LowerCase[i] = c]
  ELSE c

\* move.toUpperCase()
ToUpperCase(s) == [i \in 1..Len(s) |-> ToUpper(s[i])]

\* const headerWords = [...]
headerWords ==
  { <<"W", "H", "I", "T", "E">>, <<"B", "L", "A", "C", "K">>, <<"M", "O", "V", "E">>,
    <<"R", "O", "U", "N", "D">>, <<"R", "E", "S", "U", "L", "T">>, <<"D", "A", "T", "E">>,
    <<"E", "V", "E", "N", "T">>, <<"T", "O", "U", "R", "N", "A", "M", "E", "N", "T">>,
    <<"S", "I", "T", "E">>, <<"P", "L", "A", "Y", "E", "R">> }

\* the test of moves.filter
LooksLikeMove(move) ==
  /\ ToUpperCase(Trim(move)) \notin headerWords
  /\ Len(Trim(move)) >= 2
  /\ ~AllDigits(Trim(move))

\* correctionMap.get(key): the map is filled in the order of the
\* corrections, under original and, when there is one, under corrected, so
\* the last correction that names the key is the one found
correctionMapGet(records, key) ==
  LET Names(r) == r.original = key \/ (r.corrected # Null /\ r.corrected # <<>> /\ r.corrected = key)
      hits == {i \in 1..Len(records) : Names(records[i])}
  IN IF hits = {} THEN <<>>
     ELSE <<records[CHOOSE i \in hits : \A j \in hits : j <= i]>>

\* error is set and not empty
HasError(found) == found # <<>> /\ found[1].error # Undefined

\* transformMovesToPairs(moves, corrections)
transformMovesToPairs(tokens, records) ==
  LET filteredMoves == SelectSeq(tokens, LooksLikeMove)
      Original(found, move) ==
        IF found # <<>> /\ found[1].original # move THEN <<found[1].original>> ELSE <<>>
      ErrorOf(found) == IF HasError(found) THEN <<found[1].error>> ELSE Null
      Pair(n) ==
        LET whiteMove == filteredMoves[2 * n - 1]
            blackMove == IF 2 * n <= Len(filteredMoves) THEN filteredMoves[2 * n] ELSE Null
            whiteCorrection == correctionMapGet(records, whiteMove)
            blackCorrection == IF blackMove # Null THEN correctionMapGet(records, blackMove)
                               ELSE <<>>
        IN [moveNumber |-> n, white |-> whiteMove, black |-> blackMove,
            whiteValid |-> ~HasError(whiteCorrection),
            blackValid |-> ~HasError(blackCorrection),
            whiteError |-> ErrorOf(whiteCorrection),
            blackError |-> ErrorOf(blackCorrection),
            whiteOriginal |-> Original(whiteCorrection, whiteMove),
            blackOriginal |-> Original(blackCorrection, blackMove)]
  IN [n \in 1..((Len(filteredMoves) + 1) \div 2) |-> Pair(n)]

\* transformedMoves.reduce(...): the moves of the table marked invalid
RECURSIVE invalidCount(_)
invalidCount(pairs) ==
  IF pairs = <<>> THEN 0
  ELSE (IF ~pairs[1].whiteValid THEN 1 ELSE 0)
         + (IF pairs[1].black # Null /\ pairs[1].black # <<>> /\ ~pairs[1].blackValid
            THEN 1 ELSE 0)
         + invalidCount(Tail(pairs))

\* pollForResults, once getResults has the stored result: parsed.moves is
\* results.chessValidation.originalMoves
PollForResults ==
  /\ pc = "done"
  /\ status = "idle"
  /\ originalMoves # <<>>
  /\ movesData' = transformMovesToPairs(originalMoves, corrections)
  /\ invalidMovesCount' = invalidCount(movesData')
  /\ status' = "validated"
  /\ UNCHANGED <<pgnOutput, error>>
  /\ UNCHANGED <<blocks, moves, attempted, returned>>
  /\ UNCHANGED lambdaVars
  /\ UNCHANGED sessionVars
  /\ UNCHANGED <<zeroCastling, originalMoves, board, correctedMoves, corrections, stats, processed,
                 moveNotation, result, entry, calls, pc>>


(***************************************************************************)
(* lib/pgn/converter (src/unnamed/part_004).                               *)
(***************************************************************************)
DigitOf(n) == <<"0", "1", "2", "3", "4", "5", "6", "7", "8", "9">>[n + 1]

\* the decimal digits of a number, as a template literal writes it
RECURSIVE Digits(_)
Digits(n) == IF n < 10 THEN <<DigitOf(n)>> ELSE Digits(n \div 10) \o <<DigitOf(n % 10)>>

\* parseInt(digits, 10)
RECURSIVE parseInt(_)
parseInt(digits) ==
  IF digits = <<>> THEN 0
  ELSE 10 * parseInt(Take(digits, Len(digits) - 1))
         + (CHOOSE d \in 0..9 : DigitOf(d) = digits[Len(digits)])

\* the digits a text begins with
LeadingDigits(text) == Take(text, Len(text) - Len(DropDigits(text)))

\* moveText.split(/\s+/) of a trimmed text: the empty text gives one empty part
SplitOnSpaces(text) == IF text = <<>> THEN << <<>> >> ELSE Words(text)

\* formatMoves: the loop from the k-th move on
RECURSIVE formattedMoves(_, _, _)
formattedMoves(list, k, moveNumber) ==
  IF k > Len(list) THEN <<>>
  ELSE LET number == IF LeadingDigits(list[k]) # <<>> THEN parseInt(LeadingDigits(list[k]))
                     ELSE moveNumber
           parts == SplitOnSpaces(Trim(StripMoveNumber(list[k])))
       IN IF Len(parts) >= 2
          THEN <<Digits(number) \o <<".", " ">> \o parts[1] \o <<" ">> \o parts[2]>>
                 \o formattedMoves(list, k + 1, number + 1)
          ELSE <<Digits(number) \o <<".", " ">> \o parts[1]>>
                 \o formattedMoves(list, k + 1, number)

\* formatMoves(moves)
formatMoves(list) == IF list = <<>> THEN <<"*">> ELSE Join(formattedMoves(list, 1, 1))

\* formatMetadata({}): [White "?"], [Black "?"], [Result "*"]
formatMetadata ==
  <<"[", "W", "h", "i", "t", "e", " ", "\"", "?", "\"", "]", "\n",
    "[", "B", "l", "a", "c", "k", " ", "\"", "?", "\"", "]", "\n",
    "[", "R", "e", "s", "u", "l", "t", " ", "\"", "*", "\"", "]">>

\* convertToPGN(parsed), the metadata empty: the tags, an empty line, the
\* movetext and, unless the movetext has one, the result *
convertToPGN(list) ==
  LET moveText == formatMoves(list)
  IN formatMetadata \o <<"\n">> \o <<"\n">> \o moveText
       \o (IF "*" \in Range(moveText) THEN <<>> ELSE <<"\n", "*">>)

\* movesData.forEach(...): the moves of the table, in order
RECURSIVE movesArray(_)
movesArray(pairs) ==
  IF pairs = <<>> THEN <<>>
  ELSE <<pairs[1].white>>
         \o (IF pairs[1].black # Null /\ pairs[1].black # <<>> THEN <<pairs[1].black>> ELSE <<>>)
         \o movesArray(Tail(pairs))

\* handleGeneratePGN
HandleGeneratePGN ==
  /\ status = "validated"
  /\ IF invalidMovesCount > 0
     THEN /\ error' = <<"Please fix all invalid moves before generating PGN">>
          /\ UNCHANGED <<pgnOutput, status>>
     ELSE /\ pgnOutput' = convertToPGN(movesArray(movesData))
          /\ status' = "completed"
          /\ UNCHANGED error
  /\ UNCHANGED <<movesData, invalidMovesCount>>
  /\ UNCHANGED <<blocks, moves, attempted, returned>>
  /\ UNCHANGED lambdaVars
  /\ UNCHANGED sessionVars
  /\ UNCHANGED <<zeroCastling, originalMoves, board, correctedMoves, corrections, stats, processed,
                 moveNotation, result, entry, calls, pc>>

PageNext == Next \/ PollForResults \/ HandleGeneratePGN

PageSpec == Init /\ [][PageNext]_vars

\* text.split('\n')
RECURSIVE Lines_(_)
Lines_(text) ==
  LET first == CHOOSE n \in 0..Len(text) :
                 /\ \A i \in 1..n : text[i] # "\n"
                 /\ n = Len(text) \/ text[n + 1] = "\n"
  IN IF first = Len(text) THEN <<text>>
     ELSE <<Take(text, first)>> \o Lines_(Drop(text, first + 1))

IsTagLine(line) == line # <<>> /\ line[1] = "["

IsMoveNumber(word) ==
  Len(word) >= 2 /\ word[Len(word)] = "." /\ AllDigits(Take(word, Len(word) - 1))

\* the moves a reader of the PGN finds: the words of the movetext that are
\* neither a move number nor the result
PgnMoves(pgn) ==
  LET IsMovetext(line) == ~IsTagLine(line)
      IsMove(word) == ~IsMoveNumber(word) /\ word # <<"*">>
  IN SelectSeq(Words(Join(SelectSeq(Lines_(pgn), IsMovetext))), IsMove)

\* C11: the PGN that handleGeneratePGN writes for a processed score sheet is
\* built from the validated and corrected moves: replayed in order from the
\* initial position every move of it is legal, and for a token the run
\* corrected it holds the corrected move.
C11_PgnOfLegalMoves ==
  status = "completed" =>
    LET played == PgnMoves(pgnOutput)
    IN /\ Replay(ChessJs(zeroCastling), NewChess, played).ok
       /\ \A i \in 1..Len(calls) :
            (calls[i].result.valid /\ calls[i].result.corrected) =>
              i <= Len(played) /\ played[i] = calls[i].result.move

\* the PGN of the sheet eH, e5 is written and reads 1. eH 1. e5
C11_Witness ==
  /\ status = "completed"
  /\ stats.corrected >= 1
  /\ originalMoves = << <<"e", "H">>, <<"e", "5">> >>
  /\ PgnMoves(pgnOutput) = originalMoves
  /\ correctedMoves # originalMoves

\* the normalized token still begins with a digit
BeginsWithDigit(s) == s # <<>> /\ IsDigit(Head(s))

\* C30 as stated: normalizing the normalized token gives it back, so the
\* string validateMove tries, which it normalizes again, is moveNotation.
C30_Idempotent ==
  pc = "normalized" => extractMoveNotation(moveNotation) = moveNotation

\* C30: normalizing the normalized token gives it back exactly when the
\* normalized token does not begin with a digit; when it does, the string
\* validateMove tries is a shorter one than the moveNotation the pattern and
\* Levenshtein stages use.
C30_IdempotentUnlessDigitsRemain ==
  pc = "normalized" =>
    /\ (extractMoveNotation(moveNotation) = moveNotation) <=> ~BeginsWithDigit(moveNotation)
    /\ BeginsWithDigit(moveNotation) =>
         Len(extractMoveNotation(moveNotation)) < Len(moveNotation)

\* the text 1.1e is normalized to 1e, which validateMove normalizes to e
C30_Witness ==
  /\ pc = "normalized"
  /\ originalMove = <<"1", ".", "1", "e">>
  /\ moveNotation = <<"1", "e">>
  /\ extractMoveNotation(moveNotation) = <<"e">>

\* C28: a token whose normalized form is the empty string is never repaired:
\* its call returns an invalid result and leaves the board where it was, in
\* every position.
C28_EmptyTokenNeverRepaired ==
  (Recorded /\ Last.moveNotation = <<>>) =>
    /\ Rejected(Last)
    /\ Last.after = Last.before

\* the token 1. is normalized to the empty string and has been repaired, at
\* distance 2, into a legal move that is played on the board
C28_Witness ==
  /\ Recorded
  /\ Last.token = <<"1", ".">>
  /\ Last.moveNotation = <<>>
  /\ Repaired(Last)
  /\ Last.result.method = "levenshtein"
  /\ Last.result.distance = <<2>>
  /\ Len(Last.result.move) = 2
  /\ Last.after # Last.before

\* the places of the token that hold a character of the confusion table, in
\* ascending order
SubstitutablePlaces(token) ==
  LET InTable(i) == token[i] \in DOMAIN OCR_SUBSTITUTIONS
  IN SelectSeq([i \in 1..Len(token) |-> i], InTable)

\* the token with the character at place i replaced by its counterpart
SubstitutedAt(token, i) == [token EXCEPT ![i] = OCR_SUBSTITUTIONS[token[i]][1]]

\* the places where two texts of the same length differ
DifferingPlaces(s, t) == {j \in 1..Len(s) : s[j] # t[j]}

\* the text is the token rewritten by one of the castling patterns
IsCastlingRewrite(token, text) ==
  \E k \in 1..Len(castlingPatterns) :
    LET p == castlingPatterns[k]
    IN /\ FindFirst(token, p.pattern, p.ignoreCase) # 0
       /\ text = IF p.global
                 THEN ReplaceAll(token, p.pattern, p.replacement, p.ignoreCase)
                 ELSE ReplaceFirst(token, p.pattern, p.replacement, p.ignoreCase)

\* the candidate list is the token, then one candidate per substitutable
\* place in ascending order of the place, each differing from the token at
\* that place only, then castling rewrites of the token
InGenerationOrder(token, candidates) ==
  LET places == SubstitutablePlaces(token)
      n == Len(places)
  IN /\ Len(candidates) >= 1 + n
     /\ candidates[1] = token
     /\ \A k \in 1..n :
          /\ candidates[1 + k] = SubstitutedAt(token, places[k])
          /\ Len(candidates[1 + k]) = Len(token)
          /\ DifferingPlaces(candidates[1 + k], token) = {places[k]}
     /\ \A k \in (n + 2)..Len(candidates) :
          /\ IsCastlingRewrite(token, candidates[k])
          /\ candidates[k] # token
          /\ \A j \in 1..(k - 1) : candidates[j] # candidates[k]

\* the candidates that are tried: those that differ from the token
Tried(token, candidates) ==
  LET NotTheToken(candidate) == candidate # token
  IN SelectSeq(candidates, NotTheToken)

\* C21: generateFuzzyMatches returns the normalized token first, then the
\* single-character substitutions in ascending order of the substituted
\* place, each differing from the token in exactly one place, then the
\* castling rewrites; fuzzyMatchMove tries them in that order, skips the one
\* equal to the token and commits the first candidate the library accepts,
\* whatever candidates follow it, without a distance.
C21_CandidateOrder ==
  Recorded =>
    LET token == Last.moveNotation
        candidates == generateFuzzyMatches(token)
        first == FirstAccepted(Last.before, Tried(token, candidates))
    IN /\ InGenerationOrder(token, candidates)
       /\ Last.result.method = "pattern-based" =>
            /\ first # Null
            /\ Last.result.move = first
            /\ Last.result.move # token
            /\ Last.result.distance = Absent
            /\ Last.after = Chess_move(ChessJs(zeroCastling), Last.before, first).board
       /\ (~Exact(Last) /\ first # Null) => Last.result.method = "pattern-based"

\* the token o-o has the candidates o-o, 0-o, o-0, 0-0; the library rejected
\* the two substitutions and accepted the castling rewrite, the last one
C21_Witness ==
  /\ Recorded
  /\ Last.moveNotation = <<"o", "-", "o">>
  /\ generateFuzzyMatches(Last.moveNotation) =
       << <<"o", "-", "o">>, <<"0", "-", "o">>, <<"o", "-", "0">>, <<"0", "-", "0">> >>
  /\ Last.result.method = "pattern-based"
  /\ Last.result.move = <<"0", "-", "0">>
  /\ Last.after # Last.before

(***************************************************************************)
(* The rows of the direct cell text.                                       *)
(***************************************************************************)
\* the row indices of the cells with text below row 0
DataRows(list) ==
  {OrZero(list[i].RowIndex) :
     i \in {j \in 1..Len(list) : IsCellWithText(list[j]) /\ OrZero(list[j].RowIndex) >= 1}}

\* the cells with text of the list whose row index is in the set
CellsOfRows(list, rows) ==
  LET InRows(block) == IsCellWithText(block) /\ OrZero(block.RowIndex) \in rows
  IN SelectSeq(list, InRows)

\* the cells of one row in column order, cells of one column in the order
\* of the list
RowInColumnOrder(list, r) ==
  LET cells == CellsOfRows(list, {r})
  IN SortedBy(cells, [i \in 1..Len(cells) |-> OrZero(cells[i].ColumnIndex)])

\* the texts of the cells of the row, joined by spaces
RowTextOf(list, r) ==
  LET cells == RowInColumnOrder(list, r)
  IN Join([i \in 1..Len(cells) |-> cells[i].Text])

\* a nonempty string over the move alphabet
OverMoveAlphabet(s) == s # <<>> /\ \A i \in 1..Len(s) : s[i] \in MoveCharClass

\* an integer, with or without a dot after it
IsNumberWord(s) ==
  \/ AllDigits(s)
  \/ Len(s) >= 2 /\ s[Len(s)] = "." /\ AllDigits(Take(s, Len(s) - 1))

\* the text reads <n>. <m1> <m2> or <n> <m1> <m2>
IsNumberedRow(text) ==
  LET w == Words(text)
  IN /\ Len(w) = 3
     /\ text = Join(w)
     /\ IsNumberWord(w[1])
     /\ OverMoveAlphabet(w[2])
     /\ OverMoveAlphabet(w[3])

\* the tokens of the list are those of the rows above row r, then the given
\* ones, then those of the rows below it
RowGives(list, r, tokens) ==
  moves = fromCellText(CellsOfRows(list, {q \in DataRows(list) : q < r}))
            \o tokens
            \o fromCellText(CellsOfRows(list, {q \in DataRows(list) : q > r}))

IsWellFormedMove(text) == GlobalMatch(text, movePatternStandalone, 1) = <<text>>

\* a row of two cells or more without a move number, each cell one
\* well-formed move
IsRowOfMoves(list, r) ==
  LET cells == RowInColumnOrder(list, r)
  IN /\ Len(cells) >= 2
     /\ \A i \in 1..Len(cells) : IsWellFormedMove(cells[i].Text)

\* C23: a data row without a move number whose cells each hold one
\* well-formed algebraic move gives every one of those moves as a token, in
\* column order.
C23_RowOfMovesGivesEveryMove ==
  Extracted =>
    \A r \in DataRows(OrEmpty(blocks)) :
      IsRowOfMoves(OrEmpty(blocks), r) =>
        LET cells == RowInColumnOrder(OrEmpty(blocks), r)
        IN RowGives(OrEmpty(blocks), r, [i \in 1..Len(cells) |-> cells[i].Text])

\* the row of the cells e4 and e5 has given the token e5 alone
C23_Witness ==
  /\ Extracted
  /\ blocks.type = "object"
  /\ DataRows(blocks.items) = {1}
  /\ IsRowOfMoves(blocks.items, 1)
  /\ RowTextOf(blocks.items, 1) = <<"e", "4", " ", "e", "5">>
  /\ moves = << <<"e", "5">> >>

(***************************************************************************)
(* The flags of the moves table against the outcomes of the run.           *)
(***************************************************************************)
\* the move of the table at the place of the i-th token is shown as invalid
FlaggedInvalid(i) ==
  IF i % 2 = 1 THEN ~movesData[(i + 1) \div 2].whiteValid
  ELSE ~movesData[i \div 2].blackValid

\* the table shows every token, at its own place
EveryTokenShown ==
  /\ SelectSeq(originalMoves, LooksLikeMove) = originalMoves
  /\ Len(movesData) = (Len(originalMoves) + 1) \div 2

\* C29: once the results are loaded, the move shown at the place of a token
\* is flagged invalid exactly when the call for that token returned an
\* invalid result, each occurrence of a text by its own outcome, and
\* invalidMovesCount is the number of tokens recorded invalid.
C29_FlagsFollowTheOutcomes ==
  (status = "validated" /\ EveryTokenShown) =>
    /\ \A i \in 1..Len(originalMoves) : FlaggedInvalid(i) <=> Rejected(calls[i])
    /\ invalidMovesCount = stats.invalid

\* the text QxH7 occurs twice, repaired the first time and rejected the
\* second; both occurrences are flagged and two invalid moves are counted
\* for one token recorded invalid
C29_Witness ==
  /\ status = "validated"
  /\ EveryTokenShown
  /\ \E i, j \in 1..Len(originalMoves) :
       /\ i < j
       /\ originalMoves[i] = originalMoves[j]
       /\ Repaired(calls[i])
       /\ Rejected(calls[j])
       /\ FlaggedInvalid(i)
       /\ FlaggedInvalid(j)
  /\ invalidMovesCount > stats.invalid

(***************************************************************************)
(* The S3 trigger function.  Two copies of the handler are in the          *)
(* repository: S3Triggerc8c93dc4/src/index.js, which writes under          *)
(* results/, and src/unnamed/part_001, which writes under public/results/  *)
(* and keeps the WORD blocks.  A key is written as the list of its parts:  *)
(* folders with their slash, a file name, a suffix.                        *)
(***************************************************************************)
HandlerVersions == {"index.js", "part_001"}

\* the asynchronous invocation is tried again after a failure, this often
MaxRetries == 1

\* the keys an upload may have, with and without the public/ prefix, with a
\* space and with a plus sign in the name, and under results/
UploadKeys ==
  { <<"a.png">>,
    <<"public/", "a.png">>,
    <<"public/", "a b.png">>,
    <<"uploads/", "a+b.png">>,
    <<"results/", "a.png">>,
    <<"public/", "results/", "a.png">> }

\* the key as the S3 event carries it: a space as +, a plus sign as %2B
UrlEncodePart(part) ==
  CASE part = "a b.png" -> "a+b.png"
    [] part = "a+b.png" -> "a%2Bb.png"
    [] OTHER -> part

UrlEncode(key) == [i \in 1..Len(key) |-> UrlEncodePart(key[i])]

\* s3Record.object.key.replace(/\+/g, ' ')
PlusToSpacePart(part) == IF part = "a+b.png" THEN "a b.png" ELSE part

\* decodeURIComponent
DecodeURIComponentPart(part) == IF part = "a%2Bb.png" THEN "a+b.png" ELSE part

\* decodeURIComponent(s3Record.object.key.replace(/\+/g, ' '))
DecodeKey(encoded) ==
  [i \in 1..Len(encoded) |-> DecodeURIComponentPart(PlusToSpacePart(encoded[i]))]

\* key.startsWith(prefix)
HasPrefix(key, prefix) == Len(key) >= Len(prefix) /\ Take(key, Len(prefix)) = prefix

\* Skip processing results files to avoid infinite loops
IsResultsFile(version, key) ==
  IF version = "index.js"
  THEN HasPrefix(key, <<"results/">>)
  ELSE HasPrefix(key, <<"results/">>) \/ HasPrefix(key, <<"public/", "results/">>)

\* normalizedKey of part_001: the key without its public/ prefix
normalizedKey(originalKey) ==
  IF HasPrefix(originalKey, <<"public/">>) THEN Drop(originalKey, 1) ELSE originalKey

\* a variant: the result is written beside the upload
resultKeyBesideTheUpload(version, key) == key \o <<".json">>

\* resultKey
resultKey(version, key) ==
  IF version = "index.js"
  THEN <<"results/">> \o key \o <<".json">>
  ELSE <<"public/", "results/">> \o normalizedKey(key) \o <<".json">>

\* what Textract may find on a sheet: nothing, rows of cells, a cell whose
\* text is in its word, a table of words, a word, a header cell
TextractBlocks ==
  LET c5 == Cell("c5", <<"W", "h", "i", "t", "e">>, <<0>>, <<1>>, <<>>)
      c7 == Cell("c7", <<>>, <<1>>, <<1>>, <<"w1">>)
      c12 == Cell("c12", <<"1", ".", " ", "e", "4">>, <<1>>, <<1>>, <<>>)
      c13 == Cell("c13", <<"e", "5">>, <<1>>, <<3>>, <<>>)
      w1 == Word("w1", <<"e", "4">>, <<100>>, <<200>>)
      t2 == Table("t2", <<"w1">>)
      l1 == Line("l1", <<"e", "4", " ", "e", "5">>)
  IN { <<>>, <<c12, c13, l1>>, <<c13>>, <<c7, w1>>, <<t2, w1>>, <<w1>>, <<c5>> }

\* the text of a CELL without text, from the WORD blocks it names
TextFromWords(cell, allBlocks) ==
  LET TextOf(id) ==
        LET named == BlockWithId(allBlocks, id)
        IN IF named # <<>> /\ named[1].BlockType = "WORD" /\ named[1].Text # <<>>
           THEN <<named[1].Text>> ELSE <<>>
      wordTexts == Concat([i \in 1..Len(cell.Ids) |-> TextOf(cell.Ids[i])])
  IN IF cell.BlockType = "CELL" /\ cell.Text = <<>> /\ wordTexts # <<>>
     THEN [cell EXCEPT !.Text = Trim(Join(wordTexts))]
     ELSE cell

\* filteredBlocks: the blocks handed to correctOCRErrors
filteredBlocks(version, allBlocks) ==
  LET KeptByIndex(block) == block.BlockType \in {"TABLE", "CELL"}
      KeptByPart(block) == block.BlockType \in {"TABLE", "CELL", "WORD"}
      kept == SelectSeq(allBlocks, KeptByPart)
  IN IF version = "index.js"
     THEN SelectSeq(allBlocks, KeptByIndex)
     ELSE [i \in 1..Len(kept) |-> TextFromWords(kept[i], allBlocks)]

\* the validator before a call of correctOCRErrors
ValidatorAtRest ==
  /\ blocks = [type |-> "object", items |-> <<>>]
  /\ moves = <<>>
  /\ attempted = <<>>
  /\ returned = <<>>
  /\ originalMoves = <<>>
  /\ board = NewChess
  /\ correctedMoves = <<>>
  /\ corrections = <<>>
  /\ stats = [total |-> 0, valid |-> 0, corrected |-> 0, invalid |-> 0]
  /\ processed = 0
  /\ moveNotation = <<>>
  /\ result = <<>>
  /\ entry = NewChess
  /\ calls = <<>>

\* an image has been uploaded and its event is on its way
LambdaInit ==
  /\ zeroCastling \in BOOLEAN
  /\ ValidatorAtRest
  /\ pc = "idle"
  /\ PageIdle
  /\ NoSession
  /\ handlerVersion \in HandlerVersions
  /\ \E key \in UploadKeys :
       /\ bucket = {[key |-> key, by |-> "user", chessValidation |-> <<>>]}
       /\ events = <<[key |-> UrlEncode(key), attempt |-> 0]>>
  /\ invocation = <<>>
  /\ textractCalls = <<>>
  /\ responses = <<>>

\* the handler threw: the event is delivered again, or dropped
Redelivered(queue, event) ==
  {queue}
    \cup (IF event.attempt < MaxRetries
          THEN {Append(queue, [event EXCEPT !.attempt = @ + 1])}
          ELSE {})

\* the handler from its entry to the call of correctOCRErrors
Invoke ==
  /\ pc = "idle"
  /\ invocation = <<>>
  /\ events # <<>>
  /\ LET event == Head(events)
         key == DecodeKey(event.key)
     IN IF IsResultsFile(handlerVersion, key)
        THEN /\ responses' = Append(responses,
                                    [key |-> key, statusCode |-> 200,
                                     message |-> "Skipped results file"])
             /\ events' = Tail(events)
             /\ UNCHANGED <<invocation, textractCalls, blocks, pc>>
        ELSE /\ textractCalls' = Append(textractCalls, key)
             /\ \/ /\ \E allBlocks \in TextractBlocks :
                        blocks' = [type |-> "object",
                                   items |-> filteredBlocks(handlerVersion, allBlocks)]
                   /\ invocation' = <<[key |-> key, attempt |-> event.attempt]>>
                   /\ pc' = "extract"
                   /\ events' = Tail(events)
                   /\ UNCHANGED responses
                \/ /\ responses' = Append(responses,
                                          [key |-> key, statusCode |-> 0,
                                           message |-> "Textract failed"])
                   /\ events' \in Redelivered(Tail(events), event)
                   /\ UNCHANGED <<invocation, blocks, pc>>
  /\ UNCHANGED <<handlerVersion, bucket>>
  /\ UNCHANGED <<zeroCastling, originalMoves, board, correctedMoves, corrections, stats,
                 processed, moveNotation, result, entry, calls, moves, attempted, returned>>
  /\ UNCHANGED pageVars
  /\ UNCHANGED sessionVars

\* the validator is left as the next invocation will find it
ValidatorReset ==
  /\ blocks' = [type |-> "object", items |-> <<>>]
  /\ moves' = <<>>
  /\ attempted' = <<>>
  /\ returned' = <<>>
  /\ originalMoves' = <<>>
  /\ board' = NewChess
  /\ correctedMoves' = <<>>
  /\ corrections' = <<>>
  /\ stats' = [total |-> 0, valid |-> 0, corrected |-> 0, invalid |-> 0]
  /\ processed' = 0
  /\ moveNotation' = <<>>
  /\ result' = <<>>
  /\ entry' = NewChess
  /\ calls' = <<>>
  /\ pc' = "idle"

\* validationResult when correctOCRErrors threw
EmptyValidation ==
  [originalMoves |-> <<>>, correctedMoves |-> <<>>, corrections |-> <<>>,
   stats |-> [total |-> 0, valid |-> 0, corrected |-> 0, invalid |-> 0]]

\* validationResult: what correctOCRErrors returned, or the empty result of
\* the catch block
validationResult ==
  IF pc = "thrown" THEN EmptyValidation
  ELSE [originalMoves |-> originalMoves, correctedMoves |-> correctedMoves,
        corrections |-> corrections, stats |-> stats]

\* s3.putObject and the return of the handler; putObject may fail
PutResults(threw) ==
  LET key == invocation[1].key
      written == resultKey(handlerVersion, key)
      event == [key |-> UrlEncode(key), attempt |-> invocation[1].attempt]
  IN \/ /\ bucket' = {object \in bucket : object.key # written}
                       \cup {[key |-> written, by |-> "handler",
                              chessValidation |-> <<validationResult>>]}
        /\ events' = Append(events, [key |-> UrlEncode(written), attempt |-> 0])
        /\ responses' = Append(responses,
                               [key |-> key, statusCode |-> 200,
                                message |-> "Processing complete",
                                validationThrew |-> threw, resultKey |-> written])
     \/ /\ responses' = Append(responses,
                               [key |-> key, statusCode |-> 0,
                                message |-> "Failed to save results to S3",
                                validationThrew |-> threw])
        /\ events' \in Redelivered(events, event)
        /\ UNCHANGED bucket

\* a variant: no catch around correctOCRErrors, its exception leaves the
\* handler
SaveResultsWithoutCatch ==
  /\ invocation # <<>>
  /\ pc \in {"done", "thrown"}
  /\ IF pc = "thrown"
     THEN /\ responses' = Append(responses,
                                 [key |-> invocation[1].key, statusCode |-> 0,
                                  message |-> "Chess validation error",
                                  validationThrew |-> TRUE])
          /\ UNCHANGED <<bucket, events>>
     ELSE PutResults(FALSE)
  /\ invocation' = <<>>
  /\ ValidatorReset
  /\ UNCHANGED <<handlerVersion, textractCalls, zeroCastling>>
  /\ UNCHANGED pageVars
  /\ UNCHANGED sessionVars

\* the handler after correctOCRErrors returned or threw
SaveResults ==
  /\ invocation # <<>>
  /\ pc \in {"done", "thrown"}
  /\ PutResults(pc = "thrown")
  /\ invocation' = <<>>
  /\ ValidatorReset
  /\ UNCHANGED <<handlerVersion, textractCalls, zeroCastling>>
  /\ UNCHANGED pageVars
  /\ UNCHANGED sessionVars

LambdaNext ==
  \/ Invoke
  \/ NoText \/ TableToWords \/ GeometricGrouping \/ CellText \/ LastResort \/ ReturnMoves
  \/ DirectValidation \/ PatternStage \/ LevenshteinStage \/ MovesThrows \/ Record \/ Return
  \/ SaveResults

LambdaSpec == LambdaInit /\ [][LambdaNext]_vars

\* the keys of the objects the handler wrote
WrittenKeys == {object.key : object \in {o \in bucket : o.by = "handler"}}

\* the places of the responses with the message
ResponsesWith(message) == {i \in 1..Len(responses) : responses[i].message = message}

\* C24: the handler never runs Textract on an object it wrote: every key it
\* writes has a prefix it skips on entry, the event of a written object is
\* answered by the skip alone, and one upload has at most one processing
\* run that completes, with no more Textract calls than deliveries of the
\* upload's event, whatever the uploaded key.
C24_NoSelfTrigger ==
  /\ \A key \in WrittenKeys : IsResultsFile(handlerVersion, key)
  /\ \A i \in 1..Len(textractCalls) :
       /\ textractCalls[i] \notin WrittenKeys
       /\ ~IsResultsFile(handlerVersion, textractCalls[i])
       /\ \E object \in bucket : object.by = "user" /\ object.key = textractCalls[i]
  /\ \A i \in 1..Len(responses) :
       responses[i].key \in WrittenKeys => responses[i].message = "Skipped results file"
  /\ Cardinality(ResponsesWith("Processing complete")) <= 1
  /\ Cardinality(WrittenKeys) <= 1
  /\ Len(textractCalls) <= 1 + MaxRetries
  /\ Len(events) <= 1
  /\ Len(responses) <= 2 + MaxRetries

\* the upload public/a b.png was processed by the copy that writes under
\* public/results/, the event of the result was delivered and skipped, and
\* no event is left
C24_Witness ==
  /\ handlerVersion = "part_001"
  /\ textractCalls = << <<"public/", "a b.png">> >>
  /\ WrittenKeys = { <<"public/", "results/", "a b.png", ".json">> }
  /\ Len(responses) = 2
  /\ responses[1].message = "Processing complete"
  /\ responses[2].message = "Skipped results file"
  /\ responses[2].key \in WrittenKeys
  /\ events = <<>>
  /\ invocation = <<>>

\* the invocation met an exception of correctOCRErrors
Threw(response) == "validationThrew" \in DOMAIN response /\ response.validationThrew

\* C25: an exception of correctOCRErrors does not leave the handler: the
\* handler goes on to putObject with a chessValidation of empty lists and
\* zero counts, and when putObject succeeds the document is in the bucket
\* and the handler returns status 200; the only failure after the
\* exception is that of putObject itself.
C25_ValidationErrorIsSwallowed ==
  /\ pc = "thrown" => (invocation # <<>> /\ validationResult = EmptyValidation)
  /\ \A i \in 1..Len(responses) :
       Threw(responses[i]) =>
         \/ /\ responses[i].statusCode = 200
            /\ responses[i].message = "Processing complete"
            /\ \E object \in bucket :
                 /\ object.key = responses[i].resultKey
                 /\ object.by = "handler"
                 /\ object.chessValidation = <<EmptyValidation>>
         \/ responses[i].message = "Failed to save results to S3"

\* correctOCRErrors threw on the token e5 and the handler has returned 200
\* with the empty validation written to the bucket
C25_Witness ==
  /\ responses # <<>>
  /\ Threw(responses[1])
  /\ responses[1].statusCode = 200
  /\ \E object \in bucket :
       /\ object.key = responses[1].resultKey
       /\ object.chessValidation = <<EmptyValidation>>
  /\ pc = "idle"

(***************************************************************************)
(* The polling of the convert page.  A session is one call of processFile: *)
(* the upload, then pollForResults with its hard timeout timer and its     *)
(* wait timers.  pollingCancelledRef and timeoutRef are shared by every    *)
(* session of the page.  Date.now() follows the wall clock, the timers do  *)
(* not: a session's 200 seconds may have elapsed on the clock before its   *)
(* hard timeout callback has run.                                          *)
(***************************************************************************)
\* pollForResults(key, maxAttempts = 90), called with fewer attempts
maxAttempts == 2

\* the keys of the files the user uploads, in this order
Uploads == <<"a.png", "b.png">>

\* results.chessValidation.originalMoves of the result stored for the key
StoredMoves(key) ==
  IF key = "a.png" THEN << <<"e", "4">>, <<"e", "5">> >> ELSE << <<"d", "4">> >>

\* the moves table of the result stored for the key
TableOf(key) == transformMovesToPairs(StoredMoves(key), <<>>)

NewSession(key) ==
  [key |-> key, at |-> "uploading", attempt |-> 0, hardTimer |-> "none",
   waitTimer |-> "none", elapsed |-> FALSE, cancelled |-> FALSE]

\* no session has begun: the page as it is mounted
SessionInit ==
  /\ zeroCastling = FALSE
  /\ ValidatorAtRest
  /\ pc = "idle"
  /\ PageIdle
  /\ NoUpload
  /\ NoSession

\* clearTimeout(timeoutId) of a session, whatever the state of the timer
ClearHard(session) ==
  IF session.hardTimer = "armed" THEN [session EXCEPT !.hardTimer = "cleared"] ELSE session

\* return from pollForResults through finally: clearTimeout(timeoutId) and
\* timeoutRef.current = null
Returned(session) == [ClearHard(session) EXCEPT !.at = "returned"]

\* what the steps of the validator and of the trigger leave alone
OnlyThePage ==
  /\ UNCHANGED <<zeroCastling, originalMoves, board, correctedMoves, corrections, stats,
                 processed, moveNotation, result, entry, calls, pc, blocks, moves,
                 attempted, returned>>
  /\ UNCHANGED lambdaVars

\* processFile, to the call of uploadImage
ProcessFile ==
  /\ status \in {"idle", "error"}
  /\ Len(sessions) < Len(Uploads)
  /\ pollingCancelledRef' = FALSE
  /\ error' = Null
  /\ status' = "uploading"
  /\ progress' = 0
  /\ sessions' = Append(sessions, NewSession(Uploads[Len(sessions) + 1]))
  /\ UNCHANGED <<timeoutRef, movesData, invalidMovesCount, pgnOutput>>
  /\ OnlyThePage

\* uploadImage has answered: processFile goes on into pollForResults, to the
\* first call of getResults
UploadReturns(s) ==
  /\ s \in DOMAIN sessions
  /\ sessions[s].at = "uploading"
  /\ \/ /\ pollingCancelledRef
        /\ sessions' = [sessions EXCEPT ![s].at = "returned"]
        /\ UNCHANGED <<status, progress, error, timeoutRef, pollingCancelledRef>>
     \/ /\ ~pollingCancelledRef
        /\ progress' = 50
        /\ status' = "processing"
        /\ sessions' = [sessions EXCEPT ![s].at = "getResults", ![s].hardTimer = "armed"]
        /\ timeoutRef' = <<[session |-> s, timer |-> "hard"]>>
        /\ UNCHANGED <<error, pollingCancelledRef>>
     \/ /\ sessions' = [sessions EXCEPT ![s].at = "returned"]
        /\ IF pollingCancelledRef
           THEN UNCHANGED <<status, error>>
           ELSE /\ error' = <<"Failed to process image">>
                /\ status' = "error"
        /\ UNCHANGED <<progress, timeoutRef, pollingCancelledRef>>
  /\ UNCHANGED <<movesData, invalidMovesCount, pgnOutput>>
  /\ OnlyThePage

\* the top of the for loop, reached with the attempt counted: the test of
\* the attempts left, of the cancellation flag and of the clock, then the
\* call of getResults
LoopTop(s, session) ==
  IF session.attempt >= maxAttempts
  THEN /\ sessions' = [sessions EXCEPT ![s] = Returned(session)]
       /\ timeoutRef' = <<>>
       /\ IF pollingCancelledRef
          THEN UNCHANGED <<status, error, progress>>
          ELSE /\ error' = <<"Processing timeout">>
               /\ status' = "error"
               /\ progress' = 0
  ELSE IF pollingCancelledRef \/ session.elapsed
       THEN /\ sessions' = [sessions EXCEPT ![s] = Returned(session)]
            /\ timeoutRef' = <<>>
            /\ UNCHANGED <<status, error, progress>>
       ELSE /\ sessions' = [sessions EXCEPT ![s] = [session EXCEPT !.at = "getResults"]]
            /\ UNCHANGED <<status, error, progress, timeoutRef>>

\* getResults has answered: the results, 'Results not found', or another
\* error
GetResultsReturns(s) ==
  /\ s \in DOMAIN sessions
  /\ sessions[s].at = "getResults"
  /\ LET session == sessions[s]
         Wait == /\ sessions' = [sessions EXCEPT ![s].at = "waiting",
                                                 ![s].waitTimer = "armed"]
                 /\ timeoutRef' = <<[session |-> s, timer |-> "wait"]>>
                 /\ UNCHANGED <<status, error, progress>>
     IN IF pollingCancelledRef
        THEN /\ sessions' = [sessions EXCEPT ![s] = Returned(session)]
             /\ timeoutRef' = <<>>
             /\ UNCHANGED <<status, error, progress, movesData, invalidMovesCount>>
        ELSE \/ /\ movesData' = TableOf(session.key)
                /\ invalidMovesCount' = invalidCount(TableOf(session.key))
                /\ status' = "validated"
                /\ progress' = 100
                /\ sessions' = [sessions EXCEPT ![s] = Returned(session)]
                /\ timeoutRef' = <<>>
                /\ UNCHANGED error
             \/ /\ UNCHANGED <<movesData, invalidMovesCount>>
                /\ IF session.attempt < maxAttempts - 1
                   THEN Wait
                   ELSE LoopTop(s, [session EXCEPT !.attempt = @ + 1])
             \/ /\ UNCHANGED <<movesData, invalidMovesCount>>
                /\ IF session.attempt = maxAttempts - 1
                   THEN /\ error' = <<"Processing error">>
                        /\ status' = "error"
                        /\ sessions' = [sessions EXCEPT ![s] = Returned(session)]
                        /\ timeoutRef' = <<>>
                        /\ UNCHANGED progress
                   ELSE Wait
  /\ UNCHANGED <<pollingCancelledRef, pgnOutput>>
  /\ OnlyThePage

\* a wait timer has fired: the test of the flag, setProgress, and the next
\* turn of the loop
WaitTimerFires(s) ==
  /\ s \in DOMAIN sessions
  /\ sessions[s].at = "waiting"
  /\ sessions[s].waitTimer = "armed"
  /\ LET session == [sessions[s] EXCEPT !.waitTimer = "fired"]
     IN IF pollingCancelledRef
        THEN /\ sessions' = [sessions EXCEPT ![s] = Returned(session)]
             /\ timeoutRef' = <<>>
             /\ UNCHANGED <<status, error, progress>>
        ELSE \E next \in {[session EXCEPT !.attempt = @ + 1]} :
               IF next.elapsed
               THEN /\ progress' = 50 + (session.attempt * 40) \div maxAttempts
                    /\ sessions' = [sessions EXCEPT ![s] = Returned(next)]
                    /\ timeoutRef' = <<>>
                    /\ UNCHANGED <<status, error>>
               ELSE /\ progress' = 50 + (session.attempt * 40) \div maxAttempts
                    /\ sessions' = [sessions EXCEPT ![s] = [next EXCEPT !.at = "getResults"]]
                    /\ UNCHANGED <<status, error, timeoutRef>>
  /\ UNCHANGED <<movesData, invalidMovesCount, pollingCancelledRef, pgnOutput>>
  /\ OnlyThePage

\* the 200 seconds of a session have elapsed on the clock
ClockPasses(s) ==
  /\ s \in DOMAIN sessions
  /\ sessions[s].at \in {"getResults", "waiting"}
  /\ ~sessions[s].elapsed
  /\ sessions' = [sessions EXCEPT ![s].elapsed = TRUE]
  /\ UNCHANGED <<pageVars, pollingCancelledRef, timeoutRef, progress>>
  /\ OnlyThePage

\* the callback of the hard timeout timer
HardTimeoutFires(s) ==
  /\ s \in DOMAIN sessions
  /\ sessions[s].hardTimer = "armed"
  /\ sessions[s].elapsed
  /\ sessions' = [sessions EXCEPT ![s].hardTimer = "fired"]
  /\ IF pollingCancelledRef
     THEN UNCHANGED <<pollingCancelledRef, error, status, progress>>
     ELSE /\ pollingCancelledRef' = TRUE
          /\ error' = <<"Processing timeout">>
          /\ status' = "error"
          /\ progress' = 0
  /\ UNCHANGED <<movesData, invalidMovesCount, pgnOutput, timeoutRef>>
  /\ OnlyThePage

\* clearTimeout(timeoutRef.current)
ClearReferenced(list) ==
  IF timeoutRef = <<>> THEN list
  ELSE LET s == timeoutRef[1].session
       IN IF timeoutRef[1].timer = "hard"
          THEN [list EXCEPT ![s] = ClearHard(list[s])]
          ELSE [list EXCEPT ![s].waitTimer =
                              IF @ = "armed" THEN "cleared" ELSE @]

\* handleReset, by the button Try Again, shown with an error, or Process
\* Another Image, shown when the PGN is there
HandleReset ==
  /\ error # Null \/ status = "completed"
  /\ sessions # <<>>
  /\ pollingCancelledRef' = TRUE
  /\ sessions' = [s \in DOMAIN sessions |->
                    LET session == ClearReferenced(sessions)[s]
                    IN IF session.at # "returned"
                       THEN [session EXCEPT !.cancelled = TRUE]
                       ELSE session]
  /\ timeoutRef' = <<>>
  /\ status' = "idle"
  /\ pgnOutput' = <<>>
  /\ error' = Null
  /\ progress' = 0
  /\ movesData' = <<>>
  /\ invalidMovesCount' = 0
  /\ OnlyThePage

SessionNext ==
  \/ ProcessFile
  \/ HandleReset
  \/ \E s \in 1..Len(Uploads) :
       \/ UploadReturns(s)
       \/ GetResultsReturns(s)
       \/ WaitTimerFires(s)
       \/ ClockPasses(s)
       \/ HardTimeoutFires(s)

SessionSpec == SessionInit /\ [][SessionNext]_vars

\* an awaited call settles, an armed timer fires, the clock goes on
SessionFairSpec ==
  /\ SessionSpec
  /\ \A s \in 1..Len(Uploads) :
       /\ WF_vars(UploadReturns(s))
       /\ WF_vars(GetResultsReturns(s))
       /\ WF_vars(WaitTimerFires(s))
       /\ WF_vars(ClockPasses(s))
       /\ WF_vars(HardTimeoutFires(s))

\* the step is one of the session's own: an awaited call of the session has
\* settled or one of its timers has fired
Acts(s) ==
  \/ sessions'[s].at # sessions[s].at
  \/ sessions[s].hardTimer = "armed" /\ sessions'[s].hardTimer = "fired"

\* C26: a session that handleReset has cancelled never again changes
\* status, error, progress or movesData, also when a new upload has begun
\* since and the session's getResults call, wait timer or hard timeout
\* callback comes later.
C26_CancelledSessionIsSilent ==
  [][\A s \in DOMAIN sessions :
       (sessions[s].cancelled /\ Acts(s)) => UNCHANGED <<status, error, progress, movesData>>
    ]_vars

\* the first session was cancelled by handleReset, a second upload is under
\* way, and the page shows the moves of the first upload as validated
C26_Witness ==
  /\ Len(sessions) = 2
  /\ sessions[1].cancelled
  /\ sessions[1].at = "returned"
  /\ sessions[2].at # "returned"
  /\ status = "validated"
  /\ movesData = TableOf(Uploads[1])

\* C27: an upload that has reached 'processing' reaches 'validated' or
\* 'error', unless the user resets the page: pollForResults never returns
\* with the status left at 'processing'.
C27_ProcessingEnds ==
  (status = "processing") ~> (status \in {"validated", "error", "idle"})

\* pollForResults has returned, by the loop's own test of the clock, and the
\* page is left at 'processing' with no error, no timer and no session
C27_Witness ==
  /\ status = "processing"
  /\ error = Null
  /\ sessions # <<>>
  /\ \A s \in DOMAIN sessions :
       /\ sessions[s].at = "returned"
       /\ sessions[s].hardTimer # "armed"
       /\ ~sessions[s].cancelled
  /\ ~pollingCancelledRef
  /\ timeoutRef = <<>>

=============================================================================
